---- MODULE Spec2Model ----
(***************************************************************************)
(* Verification model of the KAST Neural Wallet quantitative core:         *)
(*   - the market-history time-series store   (lib/marketHistory)          *)
(*   - the portfolio optimizer                (lib/portfolioOptimizer)     *)
(*   - the decision engine                    (lib/decisionEngine)         *)
(*   - the useDecision approval hook          (hooks/useDecision)          *)
(*   - the forecast engine                    (lib/forecastEngine)         *)
(*   - the risk-metrics engine                (lib/riskMetrics)            *)
(*   - the cashflow forecast                  (lib/cashflowEngine)         *)
(*   - the Pyth price-feed integration        (lib/pyth)                   *)
(*   - the policy engine                      (lib/policyEngine)           *)
(*                                                                         *)
(* Numbers.  The program computes with JavaScript numbers.  The model      *)
(* keeps every quantity exact: prices are integers, shares are integers    *)
(* in units of 1e-4, percentages are integers in the unit stated next to   *)
(* each input set, and a quotient is kept as a fraction [n, d] (d = 0      *)
(* encodes the IEEE results NaN and +/-Infinity of a division by zero).    *)
(***************************************************************************)
EXTENDS Integers, Sequences, FiniteSets, TLC

VARIABLES
    marketHistory,   \* Map<string, AssetTimeSeries> of the store
    appended,        \* history: per symbol, the points pushed since its series was created
    created,         \* history: per symbol, the operation that created its series
    lastCall,        \* history: the last store operation called
    allocInput,      \* the AllocationInputs of the last optimizeAllocation call
    plan,            \* the AllocationPlan it returned
    decisionInput,   \* forecast, risk and position of the last generateDecision call
    decision,        \* the DecisionRecommendation it returned
    recommendation,  \* useDecision: useState recommendation
    certificate,     \* useDecision: useState certificate
    isGenerating,    \* useDecision: useState isGenerating
    status,          \* useDecision: useState status
    timers,          \* useDecision: the setTimeout callbacks of generate not yet run
    clock,           \* useDecision: Date.now() as seen by the hook
    lastHookCall,    \* history: the last hook operation, with the state it started from
    forecastArgs,    \* symbol, horizon and confidenceLevel of the last forecast call
    forecasts,       \* what the three forecast models and the ensemble returned for it
    riskArgs,        \* symbol, positionValue and timeHorizon of the last risk-metrics call
    riskResult,      \* what getStatistics and the VaR / CVaR functions returned for it
    cashflowArgs,    \* the arguments of the last forecastCashflow call
    cashflowResult,  \* the CashflowForecastResult (or null) it returned
    pythCall,        \* the last call into the price-feed integration and its outcome
    policyArgs,      \* the policies, context and risk of the last applyPolicies call
    policyResult     \* the PolicyEvaluationResult it returned

storeVars == <<marketHistory, appended, created, lastCall>>
allocVars == <<allocInput, plan>>
decisionVars == <<decisionInput, decision>>
hookVars == <<recommendation, certificate, isGenerating, status, timers, clock, lastHookCall>>
forecastVars == <<forecastArgs, forecasts>>
riskVars == <<riskArgs, riskResult>>
cashflowVars == <<cashflowArgs, cashflowResult>>
feedVars == <<pythCall>>
policyVars == <<policyArgs, policyResult>>
engineVars == <<forecastVars, riskVars, cashflowVars, feedVars, policyVars>>
vars == <<storeVars, allocVars, decisionVars, hookVars, engineVars>>

Max(a, b) == IF a >= b THEN a ELSE b
Min(a, b) == IF a <= b THEN a ELSE b
Abs(a) == IF a < 0 THEN -a ELSE a

(***************************************************************************)
(* JavaScript numbers that come out of a division.                         *)
(***************************************************************************)
NaN == [n |-> 0, d |-> 0]
Zero == [n |-> 0, d |-> 1]
One == [n |-> 1, d |-> 1]
IsNaN(a) == a.d = 0 /\ a.n = 0
IsFinite(a) == a.d # 0

\* a / b on numbers: x/0 is NaN for x = 0 and +/-Infinity otherwise.
Div(a, b) ==
    IF b = 0 THEN [n |-> (IF a > 0 THEN 1 ELSE IF a < 0 THEN -1 ELSE 0), d |-> 0]
    ELSE IF b < 0 THEN [n |-> -a, d |-> -b]
    ELSE [n |-> a, d |-> b]

\* a > b on numbers: every comparison with NaN is false.
Gt(a, b) ==
    IF IsNaN(a) \/ IsNaN(b) THEN FALSE
    ELSE IF a.d = 0 /\ b.d = 0 THEN a.n > b.n
    ELSE a.n * b.d > b.n * a.d

Ge(a, b) == ~IsNaN(a) /\ ~IsNaN(b) /\ ~Gt(b, a)
Lt(a, b) == Gt(b, a)

(***************************************************************************)
(* Fixed-point numbers                                                      *)
(*                                                                         *)
(* The forecast, risk-metrics and cashflow engines take square roots,      *)
(* logarithms and exponentials, which have no exact finite form.  Their    *)
(* numbers are modelled as <<"num", v>>, the number v / FScale rounded     *)
(* toward zero to a multiple of 1 / FScale, or as one of the IEEE special  *)
(* values <<"nan", 0>>, <<"inf", 1>> and <<"inf", -1>>.  The operators     *)
(* below follow the IEEE rules for the special values (x / 0, 0 / 0,       *)
(* Infinity - Infinity, 0 * Infinity, comparisons with NaN) and round      *)
(* every finite result toward zero, so each of them is monotone where the  *)
(* real operation is.                                                      *)
(***************************************************************************)
FScale == 1000
FMicro == 1000000            \* the finer unit FExp and FLn compute in
FLn2Micro == 693147          \* Math.LN2 in units of 1e-6
FHuge == 2000000000          \* beyond every finite number of the model

FNum(v) == <<"num", v>>
FInt(i) == <<"num", i * FScale>>
FNaN == <<"nan", 0>>
FInf == <<"inf", 1>>
FNegInf == <<"inf", -1>>
FZero == <<"num", 0>>
FOne == <<"num", FScale>>

FIsNaN(a) == a[1] = "nan"
FIsNum(a) == a[1] = "num"
FIsInf(a) == a[1] = "inf"
Sgn(v) == IF v > 0 THEN 1 ELSE IF v < 0 THEN -1 ELSE 0

\* const v = ...; the body F then reads the value computed once.
Bind(v, F(_)) == F(v)
Bind2(v, w, F(_, _)) == F(v, w)
Bind3(u, v, w, F(_, _, _)) == F(u, v, w)

\* <<q, r>> with a * b = q * c + r and 0 <= r < c, for a, b >= 0 and c > 0,
\* computed without forming the product a * b, one binary digit of b at a time.
RECURSIVE MulDivQR(_, _, _)
MulDivQR(a, b, c) ==
    IF b = 0 THEN <<0, 0>>
    ELSE LET h == MulDivQR(a, b \div 2, c)
             q == 2 * h[1] + (IF b % 2 = 1 THEN a \div c ELSE 0)
             r == 2 * h[2] + (IF b % 2 = 1 THEN a % c ELSE 0)
         IN  <<q + (r \div c), r % c>>

\* The same for 0 <= a, b < c <= 10^8, one hexadecimal digit of b at a time: no
\* intermediate value reaches 17 * c.
RECURSIVE MulDivHex(_, _, _)
MulDivHex(a, b, c) ==
    IF b = 0 THEN <<0, 0>>
    ELSE Bind2(MulDivHex(a, b \div 16, c), (b % 16) * a, LAMBDA h, d :
             Bind(16 * h[2] + (d % c), LAMBDA r :
                 <<16 * h[1] + (d \div c) + (r \div c), r % c>>))

\* a * b / c rounded down, for a, b >= 0 and c > 0:
\* a * b = (a div c) * b * c + (a mod c) * (b div c) * c + (a mod c) * (b mod c).
MulDivNat(a, b, c) ==
    IF a < 40000 /\ b < 40000 THEN (a * b) \div c
    ELSE IF c <= 100000000
    THEN (a \div c) * b + (a % c) * (b \div c)
         + MulDivHex(Max(a % c, b % c), Min(a % c, b % c), c)[1]
    ELSE MulDivQR(a, b, c)[1]

\* a * b / c rounded toward zero, for c > 0.
MulDiv(a, b, c) ==
    IF Sgn(a) * Sgn(b) * Sgn(c) = 0 THEN 0
    ELSE Sgn(a) * Sgn(b) * MulDivNat(Abs(a), Abs(b), c)

\* The integer square root of n >= 0.
RECURSIVE ISqrt(_)
ISqrt(n) ==
    IF n < 2 THEN n
    ELSE LET s == 2 * ISqrt(n \div 4)
         IN  IF (s + 1) * (s + 1) <= n THEN s + 1 ELSE s

FNeg(a) == IF FIsNaN(a) THEN a ELSE <<a[1], -a[2]>>

FAbs(a) == IF FIsNaN(a) THEN a ELSE <<a[1], Abs(a[2])>>

FAdd(a, b) ==
    IF FIsNaN(a) \/ FIsNaN(b) THEN FNaN
    ELSE IF FIsNum(a) /\ FIsNum(b) THEN FNum(a[2] + b[2])
    ELSE IF FIsInf(a) /\ FIsInf(b) THEN (IF a[2] = b[2] THEN a ELSE FNaN)
    ELSE IF FIsInf(a) THEN a
    ELSE b

FSub(a, b) == FAdd(a, FNeg(b))

FMul(a, b) ==
    IF FIsNaN(a) \/ FIsNaN(b) THEN FNaN
    ELSE IF FIsNum(a) /\ FIsNum(b) THEN FNum(MulDiv(a[2], b[2], FScale))
    ELSE IF a[2] = 0 \/ b[2] = 0 THEN FNaN
    ELSE <<"inf", Sgn(a[2]) * Sgn(b[2])>>

FDiv(a, b) ==
    IF FIsNaN(a) \/ FIsNaN(b) THEN FNaN
    ELSE IF FIsNum(a) /\ FIsNum(b)
         THEN IF b[2] = 0
              THEN (IF a[2] = 0 THEN FNaN ELSE <<"inf", Sgn(a[2])>>)
              ELSE FNum(Sgn(b[2]) * MulDiv(a[2], FScale, Abs(b[2])))
    ELSE IF FIsInf(a) /\ FIsInf(b) THEN FNaN
    ELSE IF FIsInf(a) THEN <<"inf", a[2] * (IF b[2] < 0 THEN -1 ELSE 1)>>
    ELSE FZero

\* The order of the numbers that are not NaN.
FKey(a) == IF FIsInf(a) THEN a[2] * FHuge ELSE a[2]

\* a < b, a <= b, a > b, a >= b: false whenever an operand is NaN.
FLt(a, b) == ~FIsNaN(a) /\ ~FIsNaN(b) /\ FKey(a) < FKey(b)
FLe(a, b) == ~FIsNaN(a) /\ ~FIsNaN(b) /\ FKey(a) <= FKey(b)
FGt(a, b) == FLt(b, a)
FGe(a, b) == FLe(b, a)

\* Math.max(a, b) and Math.min(a, b): NaN when an operand is NaN.
FMax(a, b) == IF FIsNaN(a) \/ FIsNaN(b) THEN FNaN ELSE IF FKey(a) >= FKey(b) THEN a ELSE b
FMin(a, b) == IF FIsNaN(a) \/ FIsNaN(b) THEN FNaN ELSE IF FKey(a) <= FKey(b) THEN a ELSE b

\* Math.sqrt(a): NaN for a negative operand.
FSqrt(a) ==
    IF FIsNaN(a) THEN FNaN
    ELSE IF a[2] < 0 THEN FNaN
    ELSE IF FIsInf(a) THEN a
    ELSE IF a[2] <= 2000000 THEN FNum(ISqrt(a[2] * FScale))
    ELSE FNum(100 * ISqrt(a[2] \div 10))

\* Math.pow(a, 2).
FSquare(a) == FMul(a, a)

\* Math.round(a): the nearest integer, halves upwards.
FRound(a) == IF FIsNum(a) THEN FNum(((a[2] + FScale \div 2) \div FScale) * FScale) ELSE a

\* exp(-x) in units of 1e-6, for 0 <= x < ln 2 given in units of 1e-6.
\* The series is 1 - t1 + t2 - ... - t7 with t1 = x and t(k+1) = t(k) * x / (k + 1);
\* ExpNegTail(x, t(k), k) is t(k) - t(k+1) + ... up to t7.
RECURSIVE ExpNegTail(_, _, _)
ExpNegTail(x, term, k) ==
    IF k > 7 THEN 0
    ELSE term - ExpNegTail(x, MulDiv(term, x, (k + 1) * FMicro), k + 1)

ExpNegMicro(x) == FMicro - ExpNegTail(x, x, 1)

\* 2^k for 0 <= k <= 30.
RECURSIVE Pow2(_)
Pow2(k) == IF k = 0 THEN 1 ELSE 2 * Pow2(k - 1)

\* exp(-x) in units of 1e-6, for x >= 0 given in units of 1e-6.
ExpNeg(x) ==
    LET k == x \div FLn2Micro
    IN  IF k > 30 THEN 0 ELSE ExpNegMicro(x % FLn2Micro) \div Pow2(k)

\* Math.exp(a).
FExp(a) ==
    IF FIsNaN(a) THEN FNaN
    ELSE IF FIsInf(a) THEN (IF a[2] > 0 THEN FInf ELSE FZero)
    ELSE IF a[2] <= 0
         THEN IF -a[2] > 30000 THEN FZero
              ELSE FNum(ExpNeg(-a[2] * (FMicro \div FScale)) \div (FMicro \div FScale))
    ELSE IF a[2] > 14000 THEN FInf
    ELSE FNum(MulDiv(FMicro, FMicro, ExpNeg(a[2] * (FMicro \div FScale)))
                  \div (FMicro \div FScale))

\* ln(m) in units of 1e-6, for 1 <= m < 2 given in units of 1e-6:
\* 2 * (y + y^3/3 + y^5/5 + y^7/7 + y^9/9) with y = (m - 1) / (m + 1).
\* LnTail(y2, y^k, k) is y^k/k + y^(k+2)/(k+2) + ... up to y^9/9.
RECURSIVE LnTail(_, _, _)
LnTail(y2, power, k) ==
    IF k > 9 THEN 0
    ELSE (power \div k) + LnTail(y2, MulDiv(power, y2, FMicro), k + 2)

LnSeries(y) == 2 * LnTail(MulDiv(y, y, FMicro), y, 1)

LnMantissa(m) == LnSeries(MulDiv(m - FMicro, FMicro, m + FMicro))

\* ln(v) in units of 1e-6, for v > 0 given in units of 1e-6.
RECURSIVE LnMicro(_)
LnMicro(v) ==
    IF v >= 2 * FMicro THEN FLn2Micro + LnMicro(v \div 2)
    ELSE IF v < FMicro THEN LnMicro(2 * v) - FLn2Micro
    ELSE LnMantissa(v)

\* A value in units of 1e-6 in units of 1/FScale, rounded toward zero.
MicroToScale(l) == Sgn(l) * (Abs(l) \div (FMicro \div FScale))

\* Math.log(a): -Infinity at 0, NaN below 0.
FLn(a) ==
    IF FIsNaN(a) THEN FNaN
    ELSE IF a[2] < 0 THEN FNaN
    ELSE IF FIsInf(a) THEN FInf
    ELSE IF a[2] = 0 THEN FNegInf
    ELSE IF a[2] > 2000 * FScale THEN FNum((LnMicro(a[2]) + 6907755) \div (FMicro \div FScale))
    ELSE FNum(MicroToScale(LnMicro(a[2] * (FMicro \div FScale))))

\* The sum, mean(x) and standardDeviation(x) of simple-statistics over a
\* non-empty sequence of numbers; the standard deviation is the population one.
\* An array whose elements are computed once, when it is built.
Stored(xs) == xs \o << >>

\* Sums are exact in the model and NaN and the infinities absorb, so the sum of
\* a sequence does not depend on the grouping; it is taken by halves.
RECURSIVE FSum(_)
FSum(xs) ==
    IF Len(xs) = 0 THEN FZero
    ELSE IF Len(xs) = 1 THEN FAdd(FZero, xs[1])
    ELSE FAdd(FSum(SubSeq(xs, 1, Len(xs) \div 2)),
              FSum(SubSeq(xs, Len(xs) \div 2 + 1, Len(xs))))

FMean(xs) == FDiv(FSum(xs), FInt(Len(xs)))

FSumSq(xs, m) == FSum([i \in 1..Len(xs) |-> FSquare(FSub(xs[i], m))])

FVariance(xs) == FDiv(FSumSq(xs, FMean(xs)), FInt(Len(xs)))

standardDeviation(xs) == IF Len(xs) = 1 THEN FZero ELSE FSqrt(FVariance(xs))

(***************************************************************************)
(* Time-series store                                                        *)
(***************************************************************************)
DEFAULT_WINDOW_SIZE == 50
EXTENDED_WINDOW_SIZE == 100

\* Timestamps are counted in hours (1 unit = 3 600 000 ms).
HoursPerDay == 24

Symbols == {"SOL", "BTC"}

\* Bounds of the store model.
MaxFree == 2       \* appends of a new series whose point the caller chooses freely
MaxOver == 2       \* appends beyond the capacity of a series
MaxOther == 1      \* points held by the other symbols while one window is filled
SmallWindow == 2   \* a caller-chosen maxWindowSize for initializeSeries
Now == 4800        \* Date.now() at a seedSyntheticHistory call, in hours

\* The price updates a caller may append: timestamps are not monotone in the
\* order of the set, and confidence is optional.
Ticks ==
    { [price |-> 3, timestamp |-> 4810, confidence |-> 1],
      [price |-> 1, timestamp |-> 4830, confidence |-> 0],
      [price |-> 2, timestamp |-> 4790, confidence |-> 1] }

WindowSizes == {SmallWindow}
SeedInitialPrices == {0, 5}
SeedDays == {60, 100}
SeedShapes == {"flat", "rally", "slump", "chop"}

\* A plausible slip: the map is rebuilt around the new series instead of updated.
initializeSeriesResetsMap(mh, symbol, maxWindowSize) ==
    [x \in {symbol} |->
        [symbol |-> symbol, prices |-> << >>, maxWindowSize |-> maxWindowSize]]

initializeSeries(mh, symbol, maxWindowSize) ==
    [x \in (DOMAIN mh) \cup {symbol} |->
        IF x = symbol
        THEN [symbol |-> symbol, prices |-> << >>, maxWindowSize |-> maxWindowSize]
        ELSE mh[x]]

\* A plausible slip: the window is trimmed from the wrong end.
addPriceEvictsNewest(mh, symbol, point) ==
    LET mh1 == IF symbol \in DOMAIN mh THEN mh
               ELSE initializeSeries(mh, symbol, DEFAULT_WINDOW_SIZE)
        pushed == Append(mh1[symbol].prices, point)
        kept == IF Len(pushed) > mh1[symbol].maxWindowSize
                THEN SubSeq(pushed, 1, Len(pushed) - 1) ELSE pushed
    IN  [mh1 EXCEPT ![symbol].prices = kept]

\* A plausible slip: the rolling window is never trimmed.
addPriceNoEviction(mh, symbol, point) ==
    LET mh1 == IF symbol \in DOMAIN mh THEN mh
               ELSE initializeSeries(mh, symbol, DEFAULT_WINDOW_SIZE)
    IN  [mh1 EXCEPT ![symbol].prices = Append(mh1[symbol].prices, point)]

addPrice(mh, symbol, point) ==
    LET mh1 == IF symbol \in DOMAIN mh THEN mh
               ELSE initializeSeries(mh, symbol, DEFAULT_WINDOW_SIZE)
        pushed == Append(mh1[symbol].prices, point)
        kept == IF Len(pushed) > mh1[symbol].maxWindowSize THEN Tail(pushed) ELSE pushed
    IN  [mh1 EXCEPT ![symbol].prices = kept]

getSeriesPrices(mh, symbol) == IF symbol \in DOMAIN mh THEN mh[symbol].prices ELSE << >>

getPriceArray(mh, symbol) ==
    IF symbol \in DOMAIN mh
    THEN [i \in 1..Len(mh[symbol].prices) |-> mh[symbol].prices[i].price]
    ELSE << >>

getTimestampArray(mh, symbol) ==
    IF symbol \in DOMAIN mh
    THEN [i \in 1..Len(mh[symbol].prices) |-> mh[symbol].prices[i].timestamp]
    ELSE << >>

\* The standard-normal shock of one day of the synthetic walk, as the sign of
\* the resulting price change: the walk Math.random() produces is one of SeedShapes.
randomShock(shape, i) ==
    CASE shape = "flat" -> 0
      [] shape = "rally" -> 1
      [] shape = "slump" -> -1
      [] OTHER -> IF i % 2 = 0 THEN -1 ELSE 1

\* currentPrice * Math.exp(priceChange): the price moves with the shock and keeps
\* its sign (a zero price stays zero, a positive price stays positive).
nextSyntheticPrice(currentPrice, shock) ==
    IF currentPrice = 0 THEN 0
    ELSE IF currentPrice > 0 THEN Max(1, currentPrice + shock)
    ELSE Min(-1, currentPrice + shock)

\* One iteration of the loop of seedSyntheticHistory, at loop index i.
seedStep(st, symbol, i, shape) ==
    LET point == [price |-> st.currentPrice,
                  timestamp |-> Now - i * HoursPerDay,
                  confidence |-> 0]
    IN  [mh |-> addPrice(st.mh, symbol, point),
         currentPrice |-> nextSyntheticPrice(st.currentPrice, randomShock(shape, i)),
         log |-> Append(st.log, point)]

\* The iterations i = hi, hi - 1, ..., lo of the loop, in that order (the range
\* is split in halves, and the first half evaluated before the second is
\* entered, only to keep the evaluation shallow).
RECURSIVE seedLoop(_, _, _, _, _)
seedLoop(st, symbol, hi, lo, shape) ==
    IF hi < lo THEN st
    ELSE IF hi = lo THEN seedStep(st, symbol, hi, shape)
    ELSE LET mid == (hi + lo) \div 2
             first == seedLoop(st, symbol, hi, mid + 1, shape)
         IN  IF first.currentPrice = first.currentPrice
             THEN seedLoop(first, symbol, mid, lo, shape)
             ELSE st

\* Returns the store after the call and the points it pushed.
seedSyntheticHistory(mh, symbol, initialPrice, days, shape) ==
    seedLoop([mh |-> initializeSeries(mh, symbol, EXTENDED_WINDOW_SIZE),
              currentPrice |-> initialPrice, log |-> << >>],
             symbol, days, 0, shape)

clearAllHistory(mh) == << >>

\* A plausible slip: the running peak is never updated.
drawdownStepStalePeak(st, prices, i) ==
    LET price == prices[i]
        drawdown == Div(st.peak - price, st.peak)
    IN  [peak |-> st.peak,
         maxDrawdown |-> IF Gt(drawdown, st.maxDrawdown) THEN drawdown ELSE st.maxDrawdown,
         currentDrawdown |-> IF i = Len(prices) THEN drawdown ELSE st.currentDrawdown]

\* One iteration of the loop of getDrawdown, at (1-based) index i.
drawdownStep(st, prices, i) ==
    LET price == prices[i]
        peak == IF price > st.peak THEN price ELSE st.peak
        drawdown == Div(peak - price, peak)
    IN  [peak |-> peak,
         maxDrawdown |-> IF Gt(drawdown, st.maxDrawdown) THEN drawdown ELSE st.maxDrawdown,
         currentDrawdown |-> IF i = Len(prices) THEN drawdown ELSE st.currentDrawdown]

\* The iterations lo, lo + 1, ..., hi of the loop, in that order (split in halves
\* only to keep the evaluation shallow).
RECURSIVE drawdownLoop(_, _, _, _)
drawdownLoop(st, prices, lo, hi) ==
    IF hi < lo THEN st
    ELSE IF hi = lo THEN drawdownStep(st, prices, lo)
    ELSE LET mid == (hi + lo) \div 2
             first == drawdownLoop(st, prices, lo, mid)
         IN  IF first.peak = first.peak
             THEN drawdownLoop(first, prices, mid + 1, hi)
             ELSE st

getDrawdown(mh, symbol) ==
    IF symbol \notin DOMAIN mh \/ Len(mh[symbol].prices) < 2
    THEN [max |-> Zero, current |-> Zero]
    ELSE LET prices == getPriceArray(mh, symbol)
             out == drawdownLoop([peak |-> prices[1], maxDrawdown |-> Zero,
                                  currentDrawdown |-> Zero], prices, 1, Len(prices))
         IN  [max |-> out.maxDrawdown, current |-> out.currentDrawdown]

(***************************************************************************)
(* Store operations as called by the price-feed collaborator and the UI.   *)
(* A caller may append any point at any time.  To keep the reachable set   *)
(* finite the model lets the caller choose the point freely during the     *)
(* first MaxFree appends of a series and whenever the window is full; in   *)
(* between, an append repeats the latest point.  A series receives at most *)
(* MaxOver appends beyond its capacity, and while one symbol holds more    *)
(* than MaxOther points the other symbols hold at most MaxOther.  A series  *)
(* is re-seeded only while it has received at most MaxFree points.         *)
(***************************************************************************)
NoPoint == [price |-> 0, timestamp |-> 0, confidence |-> 0]

Capacity(symbol) ==
    IF symbol \in DOMAIN marketHistory THEN marketHistory[symbol].maxWindowSize
    ELSE DEFAULT_WINDOW_SIZE

\* The latest point of a symbol's window, which a feed that has not moved repeats.
LatestPoint(symbol) ==
    LET cur == getSeriesPrices(marketHistory, symbol)
    IN  IF cur = << >> THEN {} ELSE {cur[Len(cur)]}

OthersShort(symbol) == \A o \in Symbols \ {symbol} : Len(appended[o]) <= MaxOther

AddPrice(symbol, point) ==
    LET cur == getSeriesPrices(marketHistory, symbol)
    IN  /\ Len(appended[symbol]) < Capacity(symbol) + MaxOver
        /\ Len(appended[symbol]) >= MaxOther => OthersShort(symbol)
        /\ \/ Len(appended[symbol]) < MaxFree
           \/ Len(cur) >= Capacity(symbol)
           \/ (cur # << >> /\ point = cur[Len(cur)])
        /\ marketHistory' = addPrice(marketHistory, symbol, point)
        /\ appended' = [appended EXCEPT ![symbol] = Append(@, point)]
        /\ created' = IF symbol \in DOMAIN marketHistory THEN created
                      ELSE [created EXCEPT ![symbol] = "addPrice"]
        /\ lastCall' = [op |-> "addPrice", symbol |-> symbol, point |-> point]
        /\ UNCHANGED <<allocVars, decisionVars, hookVars, engineVars>>

AddPriceCall(symbol) == \E p \in Ticks \cup LatestPoint(symbol) : AddPrice(symbol, p)

InitializeSeries(symbol, maxWindowSize) ==
    /\ marketHistory' = initializeSeries(marketHistory, symbol, maxWindowSize)
    /\ appended' = [appended EXCEPT ![symbol] = << >>]
    /\ created' = [created EXCEPT ![symbol] = "initializeSeries"]
    /\ lastCall' = [op |-> "initializeSeries", symbol |-> symbol, point |-> NoPoint]
    /\ UNCHANGED <<allocVars, decisionVars, hookVars, engineVars>>

SeedSyntheticHistory(symbol, initialPrice, days, shape) ==
    LET seeded == seedSyntheticHistory(marketHistory, symbol, initialPrice, days, shape)
    IN  /\ OthersShort(symbol)
        /\ Len(appended[symbol]) <= MaxFree
        /\ marketHistory' = seeded.mh
        /\ appended' = [appended EXCEPT ![symbol] = seeded.log]
        /\ created' = [created EXCEPT ![symbol] = "seedSyntheticHistory"]
        /\ lastCall' = [op |-> "seedSyntheticHistory", symbol |-> symbol, point |-> NoPoint]
        /\ UNCHANGED <<allocVars, decisionVars, hookVars, engineVars>>

ClearAllHistory ==
    /\ marketHistory' = clearAllHistory(marketHistory)
    /\ appended' = [s \in Symbols |-> << >>]
    /\ created' = [s \in Symbols |-> "none"]
    /\ lastCall' = [op |-> "clearAllHistory", symbol |-> "", point |-> NoPoint]
    /\ UNCHANGED <<allocVars, decisionVars, hookVars, engineVars>>

\* Idle values of the components a specification does not exercise.
NoAllocInput == [totalUSD |-> 0]
NoPlan == [horizonDays |-> 0]
NoDecisionInput == [positionValue |-> 0]
NoDecision == [type |-> "none"]
NoCertificate == [certificateId |-> 0]
NoRecommendation == [type |-> "none"]
NoHookCall == [op |-> "none"]
NoArgs == [symbol |-> ""]
NoResult == [called |-> FALSE]
NoFeedCall == [op |-> "none"]

InitStoreVars ==
    /\ marketHistory = << >>
    /\ appended = [s \in Symbols |-> << >>]
    /\ created = [s \in Symbols |-> "none"]
    /\ lastCall = [op |-> "none", symbol |-> "", point |-> NoPoint]

InitAllocVars == allocInput = NoAllocInput /\ plan = NoPlan

InitDecisionVars == decisionInput = NoDecisionInput /\ decision = NoDecision

InitHookVars ==
    /\ recommendation = NoRecommendation
    /\ certificate = NoCertificate
    /\ isGenerating = FALSE
    /\ status = "null"
    /\ timers = << >>
    /\ clock = 0
    /\ lastHookCall = NoHookCall

InitForecastVars == forecastArgs = NoArgs /\ forecasts = NoResult

InitRiskVars == riskArgs = NoArgs /\ riskResult = NoResult

InitCashflowVars == cashflowArgs = NoArgs /\ cashflowResult = NoResult

InitFeedVars == pythCall = NoFeedCall

InitPolicyVars == policyArgs = NoArgs /\ policyResult = NoResult

InitEngineVars ==
    /\ InitForecastVars /\ InitRiskVars /\ InitCashflowVars
    /\ InitFeedVars /\ InitPolicyVars

InitStore ==
    InitStoreVars /\ InitAllocVars /\ InitDecisionVars /\ InitHookVars /\ InitEngineVars

NextStore ==
    \/ \E s \in Symbols : AddPriceCall(s)
    \/ \E s \in Symbols, w \in WindowSizes : InitializeSeries(s, w)
    \/ \E s \in Symbols, p0 \in SeedInitialPrices, d \in SeedDays, sh \in SeedShapes :
          SeedSyntheticHistory(s, p0, d, sh)
    \/ ClearAllHistory

SpecStore == InitStore /\ [][NextStore]_vars

(***************************************************************************)
(* Portfolio optimizer                                                      *)
(*                                                                         *)
(* Units.  totalUSD is an integer number of micro-dollars (1e-6 USD).      *)
(* Shares (the candidates and the allocations) are integers in units of    *)
(* 1e-4.  stepPct is given in units of 0.001 percent, so that the loop     *)
(* variable x is an integer in units of 1e-5 and toFixed(4) rounds it.     *)
(* APYs, var95, cvar95 and maxVar95LossPct are integers in percent (1e-2); *)
(* the uncertainties are integers in units of 1e-3.                        *)
(*                                                                         *)
(* Every USD amount the optimizer computes is totalUSD times a             *)
(* coefficient that does not depend on totalUSD.  The model keeps such an  *)
(* amount as the pair [usd, coef] and compares amounts through TimesGt,    *)
(* which decides usd * coef > eps without forming the (large) product.     *)
(***************************************************************************)
FullShare == 10000            \* the share 1.0, in units of 1e-4
DefaultStepPct == 5000        \* input.stepPct ?? 5, in units of 0.001 percent
MinStepPct == 1000            \* Math.max(1, ...)
MaxStepPct == 20000           \* Math.min(20, ...)
VarEpsilon == 1000            \* the 1e-9 USD of the VaR test, in units of 1e-12 USD
LambdaNum == 7                \* lambda = 0.35 = 7 / 20
LambdaDen == 20
DaysPerYear == 365

\* usd * coef > eps, for eps >= 0.
TimesGt(usd, coef, eps) ==
    IF usd = 0 \/ coef = 0 THEN FALSE
    ELSE IF (usd > 0) = (coef > 0) THEN Abs(usd) > eps \div Abs(coef)
    ELSE FALSE

\* +x.toFixed(4) for x >= 0 in units of 1e-5: the nearest multiple of 1e-4.
toFixed4(x) == (x + 5) \div 10

\* Math.max(1, Math.min(20, input.stepPct ?? 5)); stepPct is << >> when absent.
clampStepPct(stepPct) ==
    Max(MinStepPct, Min(MaxStepPct, IF stepPct = << >> THEN DefaultStepPct ELSE stepPct[1]))

\* for (let x = 0; x <= 1 + 1e-9; x += step) candidates.push(min(1, max(0, +x.toFixed(4))))
candidatesOf(stepPct) ==
    LET step == clampStepPct(stepPct)
        count == (10 * FullShare) \div step + 1
    IN  [k \in 1..count |-> Min(FullShare, Max(0, toFixed4((k - 1) * step)))]

\* expectedReturnOverHorizon(totalUSD * share, apy, horizonDays), as the coefficient
\* of totalUSD in units of 1e-6 / 365.
expectedReturnOverHorizon(share, apy, horizonDays) == share * apy * horizonDays

\* worstCaseLossSol(solUSD, solRisk), as the coefficient of totalUSD in units of 1e-6.
worstCaseLossSol(solPct, solRisk) == solPct * Abs(solRisk.cvar95)

\* A plausible slip: the objective is the penalty alone, without the return.
scoreOfPenaltyOnly(expectedReturn, worstLoss) == - LambdaNum * DaysPerYear * worstLoss

\* expectedReturn - lambda * worstLoss, as the coefficient of totalUSD in units of
\* 1e-6 / (365 * 20).
scoreOf(expectedReturn, worstLoss) ==
    LambdaDen * expectedReturn - LambdaNum * DaysPerYear * worstLoss

NoBest ==
    [found |-> FALSE, horizonDays |-> 0,
     allocations |-> [CASH |-> 0, STABLE_EARN |-> 0, SOL_STAKING |-> 0],
     expectedReturnUSD |-> [usd |-> 0, coef |-> 0],
     worstCaseLossUSD |-> [usd |-> 0, coef |-> 0],
     worstCaseLossPct |-> 0,
     objectiveScore |-> [usd |-> 0, coef |-> 0]]

uncertaintyTooHighOf(input) == input.currentRelativeUncertainty > input.maxUncertainty

\* A plausible slip: the safety gate is applied as a flag only, not as a constraint.
gateSkipsNever(input, solPct) == FALSE

\* if (uncertaintyTooHigh && solPct > 0) continue;
gateSkips(input, solPct) == uncertaintyTooHighOf(input) /\ solPct > 0

\* A plausible slip: the remainder is not checked, so cash is clamped at 0.
cashSkipsNever(solPct, stablePct) == FALSE

\* if (cashPct < -1e-9) continue;
cashSkips(solPct, stablePct) == FullShare - solPct - stablePct < 0

\* if (varLossUSD > maxAllowedVarUSD + 1e-9) continue;
\* with varLossUSD = solUSD * |var95| and maxAllowedVarUSD = solUSD * maxVar95LossPct.
varSkips(input, solPct) ==
    TimesGt(input.totalUSD,
            solPct * (Abs(input.solRisk.var95) - input.maxVar95LossPct),
            VarEpsilon)

\* A plausible slip: a candidate that ties with the best so far replaces it.
replacesBestOnTie(input, best, score) ==
    ~best.found \/ ~TimesGt(input.totalUSD, best.objectiveScore.coef - score, 0)

\* if (!best || plan.objectiveScore > best.objectiveScore)
replacesBest(input, best, score) ==
    ~best.found \/ TimesGt(input.totalUSD, score - best.objectiveScore.coef, 0)

\* The body of the inner loop for one (solPct, stablePct): the best plan so far
\* in, the best plan so far out.
allocStep(input, best, solPct, stablePct) ==
    IF gateSkips(input, solPct) THEN best
    ELSE IF cashSkips(solPct, stablePct) THEN best
    ELSE IF varSkips(input, solPct) THEN best
    ELSE LET cash == Max(0, FullShare - solPct - stablePct)
             expectedReturn ==
                 expectedReturnOverHorizon(stablePct, input.stableEarnApy, input.horizonDays)
                 + expectedReturnOverHorizon(solPct, input.solStakingApy, input.horizonDays)
             worstLoss == worstCaseLossSol(solPct, input.solRisk)
             score == scoreOf(expectedReturn, worstLoss)
             candidate ==
                 [found |-> TRUE, horizonDays |-> input.horizonDays,
                  allocations |-> [CASH |-> cash, STABLE_EARN |-> stablePct,
                                   SOL_STAKING |-> solPct],
                  expectedReturnUSD |-> [usd |-> input.totalUSD, coef |-> expectedReturn],
                  worstCaseLossUSD |-> [usd |-> input.totalUSD, coef |-> worstLoss],
                  worstCaseLossPct |-> IF input.totalUSD > 0 THEN worstLoss ELSE 0,
                  objectiveScore |-> [usd |-> input.totalUSD, coef |-> score]]
         IN  IF replacesBest(input, best, score) THEN candidate ELSE best

\* The two nested loops over candidates, as the iterations lo..hi of the pairs in
\* loop order (pair k is solPct = candidates[k \div n + 1], stablePct =
\* candidates[k % n + 1]); split in halves only to keep the evaluation shallow.
RECURSIVE allocLoop(_, _, _, _, _)
allocLoop(input, cands, best, lo, hi) ==
    IF hi < lo THEN best
    ELSE IF hi = lo
         THEN allocStep(input, best, cands[(lo \div Len(cands)) + 1],
                        cands[(lo % Len(cands)) + 1])
    ELSE LET mid == (hi + lo) \div 2
             first == allocLoop(input, cands, best, lo, mid)
         IN  IF first.found = first.found
             THEN allocLoop(input, cands, first, mid + 1, hi)
             ELSE best

\* Fallback: all stable earn if nothing fits.
fallbackPlan(input) ==
    [found |-> TRUE, horizonDays |-> input.horizonDays,
     allocations |-> [CASH |-> 0, STABLE_EARN |-> FullShare, SOL_STAKING |-> 0],
     expectedReturnUSD |->
         [usd |-> input.totalUSD,
          coef |-> expectedReturnOverHorizon(FullShare, input.stableEarnApy, input.horizonDays)],
     worstCaseLossUSD |-> [usd |-> 0, coef |-> 0],
     worstCaseLossPct |-> 0,
     objectiveScore |-> [usd |-> 0, coef |-> 0]]

optimizeAllocation(input) ==
    LET cands == candidatesOf(input.stepPct)
        best == allocLoop(input, cands, NoBest, 0, Len(cands) * Len(cands) - 1)
        chosen == IF ~best.found THEN fallbackPlan(input) ELSE best
    IN  [horizonDays |-> chosen.horizonDays,
         allocations |-> chosen.allocations,
         expectedReturnUSD |-> chosen.expectedReturnUSD,
         worstCaseLossUSD |-> chosen.worstCaseLossUSD,
         worstCaseLossPct |-> chosen.worstCaseLossPct,
         objectiveScore |-> chosen.objectiveScore,
         gateReasoning |-> uncertaintyTooHighOf(input),
         fellBack |-> ~best.found]

\* The inputs the model calls the optimizer with.
TotalUSDs == {-1000000, 0, 1, 1000000, 1000000000}
StepPcts == {<< >>, <<500>>, <<7000>>, <<12345>>, <<20000>>, <<50000>>}
StableApys == {0, 6}
SolApys == {-2, 7, 20}
Var95s == {-12, 0, 9, 11}
Cvar95s == {-12, 0}
MaxVar95LossPcts == {10}
MaxUncertainties == {10}
CurrentUncertainties == {10, 20}
Horizons == {7}

AllocationInputs ==
    [totalUSD : TotalUSDs, stableEarnApy : StableApys, solStakingApy : SolApys,
     solRisk : [var95 : Var95s, cvar95 : Cvar95s],
     maxVar95LossPct : MaxVar95LossPcts, maxUncertainty : MaxUncertainties,
     currentRelativeUncertainty : CurrentUncertainties,
     horizonDays : Horizons, stepPct : StepPcts]

\* A caller holds its inputs and calls the optimizer on them.
OptimizeAllocation ==
    /\ plan = NoPlan
    /\ plan' = optimizeAllocation(allocInput)
    /\ UNCHANGED <<allocInput, storeVars, decisionVars, hookVars, engineVars>>

InitAlloc ==
    /\ allocInput \in AllocationInputs
    /\ plan = NoPlan
    /\ InitStoreVars /\ InitDecisionVars /\ InitHookVars /\ InitEngineVars

NextAlloc == OptimizeAllocation

SpecAlloc == InitAlloc /\ [][NextAlloc]_vars

(***************************************************************************)
(* Decision engine                                                          *)
(*                                                                         *)
(* Units.  The fractions of RiskMetrics (volatility, var95, cvar95, the    *)
(* drawdowns, relativeUncertainty) are integers in units of 1e-3.  Prices  *)
(* and the position value are integers; suggested amounts and the worst-   *)
(* case loss are integers in units of 1e-3 of the position's unit.         *)
(***************************************************************************)
VolatilityHigh == 500         \* risk.volatility > 0.5
Var95High == 100              \* risk.var95 > 0.1
DrawdownHigh == 150           \* risk.currentDrawdown > 0.15
UncertaintyHigh == 20         \* risk.relativeUncertainty > 0.02
Var95Low == 50                \* risk.var95 < 0.05
VolatilityElevated == 300     \* risk.volatility > 0.3 (alternatives)

\* A plausible slip: the VaR rule is tested before the volatility rule.
determineDecisionTypeVarFirst(forecast, risk, positionValue) ==
    IF risk.var95 > Var95High THEN "add_collateral"
    ELSE IF risk.volatility > VolatilityHigh
            /\ 10 * forecast.expectedValue < 11 * forecast.lowerBound
    THEN "reduce_exposure"
    ELSE IF risk.currentDrawdown > DrawdownHigh THEN "reduce_exposure"
    ELSE IF risk.relativeUncertainty > UncertaintyHigh THEN "increase_stable"
    ELSE IF 20 * forecast.expectedValue > 21 * forecast.lowerBound /\ risk.var95 < Var95Low
    THEN "take_profit"
    ELSE "hold"

\* expectedValue < lowerBound * 1.1 is 10 * expectedValue < 11 * lowerBound, and
\* expectedValue > lowerBound * 1.05 is 20 * expectedValue > 21 * lowerBound.
determineDecisionType(forecast, risk, positionValue) ==
    IF risk.volatility > VolatilityHigh
       /\ 10 * forecast.expectedValue < 11 * forecast.lowerBound
    THEN "reduce_exposure"
    ELSE IF risk.var95 > Var95High THEN "add_collateral"
    ELSE IF risk.currentDrawdown > DrawdownHigh THEN "reduce_exposure"
    ELSE IF risk.relativeUncertainty > UncertaintyHigh THEN "increase_stable"
    ELSE IF 20 * forecast.expectedValue > 21 * forecast.lowerBound /\ risk.var95 < Var95Low
    THEN "take_profit"
    ELSE "hold"

getDecisionTitle(type) ==
    CASE type = "hold" -> "Hold Position"
      [] type = "reduce_exposure" -> "Reduce Exposure"
      [] type = "increase_stable" -> "Increase Stablecoin Allocation"
      [] type = "take_profit" -> "Take Partial Profits"
      [] type = "add_collateral" -> "Add Collateral"

\* A plausible slip: the take_profit case is missing and falls to the default.
buildSuggestedActionWithoutTakeProfit(type, positionValue, risk, forecast) ==
    CASE type = "reduce_exposure" ->
            [type |-> "sell", amount |-> positionValue * 200, targetAsset |-> "undefined"]
      [] type = "increase_stable" ->
            [type |-> "swap", amount |-> positionValue * 300, targetAsset |-> "USDC"]
      [] type = "add_collateral" ->
            [type |-> "deposit", amount |-> (positionValue * risk.var95 * 3) \div 2,
             targetAsset |-> "undefined"]
      [] OTHER -> [type |-> "hold", amount |-> 0, targetAsset |-> "undefined"]

\* amount is in units of 1e-3: positionValue * 0.2 is positionValue * 200, and
\* positionValue * risk.var95 * 1.5 is positionValue * var95 * 3 / 2 with var95 in 1e-3.
buildSuggestedAction(type, positionValue, risk, forecast) ==
    CASE type = "reduce_exposure" ->
            [type |-> "sell", amount |-> positionValue * 200, targetAsset |-> "undefined"]
      [] type = "increase_stable" ->
            [type |-> "swap", amount |-> positionValue * 300, targetAsset |-> "USDC"]
      [] type = "add_collateral" ->
            [type |-> "deposit", amount |-> (positionValue * risk.var95 * 3) \div 2,
             targetAsset |-> "undefined"]
      [] type = "take_profit" ->
            [type |-> "sell", amount |-> positionValue * 100, targetAsset |-> "undefined"]
      [] OTHER -> [type |-> "hold", amount |-> 0, targetAsset |-> "undefined"]

generateAlternatives(currentType, forecast, risk, positionValue) ==
    (IF currentType # "hold" THEN <<[type |-> "hold", confidenceScore |-> 60]>> ELSE << >>)
    \o (IF currentType # "reduce_exposure" /\ risk.var95 > Var95Low
        THEN <<[type |-> "reduce_exposure", confidenceScore |-> 70]>> ELSE << >>)
    \o (IF currentType # "increase_stable" /\ risk.volatility > VolatilityElevated
        THEN <<[type |-> "increase_stable", confidenceScore |-> 65]>> ELSE << >>)

\* calculateDataQuality, a score between 0 and 100.  relativeUncertainty * 3000
\* and volatility * 40 are 3 and 0.04 times the values in units of 1e-3.
calculateDataQuality(forecast, risk, priceData) ==
    LET stale == IF priceData.isStale THEN FInt(30) ELSE FZero
        uncertain == FMin(FInt(30), FInt(3 * priceData.relativeUncertainty))
        volatile == FMin(FInt(20), FNum(40 * risk.volatility))
        short == IF forecast.inputDataPoints < 20 THEN FInt(20) ELSE FZero
        score == FSub(FSub(FSub(FSub(FInt(100), stale), uncertain), volatile), short)
    IN  FMax(FZero, score)

\* normalCDF(x) of the decision engine for a finite x in units of 1e-6, in units
\* of 1e-6: 0.5 * (1 + sign * y) with y = 1 - poly(t) * t * exp(-x * x) at
\* |x| / sqrt(2).  The coefficients are the source's, rounded to 1e-6.
normalCDFPoly(t) ==
    LET h4 == -1453152 + MulDiv(t, 1061405, FMicro)
        h3 == 1421414 + MulDiv(t, h4, FMicro)
        h2 == -284497 + MulDiv(t, h3, FMicro)
    IN  254830 + MulDiv(t, h2, FMicro)

normalCDFY(x) ==
    Bind(MulDiv(FMicro, FMicro, FMicro + MulDiv(327591, x, FMicro)), LAMBDA t :
        FMicro - MulDiv(MulDiv(normalCDFPoly(t), t, FMicro),
                        ExpNeg(MulDiv(x, x, FMicro)), FMicro))

normalCDF(xm) ==
    (FMicro + (IF xm < 0 THEN -1 ELSE 1) * normalCDFY(MulDiv(Abs(xm), 707107, FMicro))) \div 2

\* A plausible slip: a forecast without spread is never counted as a loss.
calculateProbabilityOfLossNeverCertain(forecast, positionValue) ==
    IF positionValue = 0 THEN FZero
    ELSE IF forecast.errorMargin = 0 THEN FZero
    ELSE FNum(normalCDF(Max(-8 * FMicro, Min(8 * FMicro,
                 MulDiv(-forecast.expectedValue, 1960000, forecast.errorMargin))))
              \div (FMicro \div FScale))

\* calculateProbabilityOfLoss, for integer expectedValue and errorMargin >= 0:
\* sigma = errorMargin / 1.96 is 0 exactly when errorMargin is, and z =
\* -expectedValue / sigma.  Beyond |z| = 8 the result is 0 or 1 in units of 1e-6.
calculateProbabilityOfLoss(forecast, positionValue) ==
    IF positionValue = 0 THEN FZero
    ELSE IF forecast.errorMargin = 0
    THEN (IF forecast.expectedValue < 0 THEN FOne ELSE FZero)
    ELSE FNum(normalCDF(Max(-8 * FMicro, Min(8 * FMicro,
                 MulDiv(-forecast.expectedValue, 1960000, forecast.errorMargin))))
              \div (FMicro \div FScale))

\* determineUrgency, with var95 in units of 1e-3.
determineUrgency(risk, probLoss) ==
    IF risk.var95 > 150 \/ FGt(probLoss, FNum(300)) THEN "critical"
    ELSE IF risk.var95 > 100 \/ FGt(probLoss, FNum(200)) THEN "high"
    ELSE IF risk.var95 > 50 \/ FGt(probLoss, FNum(100)) THEN "medium"
    ELSE "low"

\* calculateConfidenceScore: errorMargin / expectedValue is not guarded.
calculateConfidenceScore(dataQuality, forecast, risk) ==
    LET errorPct == FDiv(FInt(forecast.errorMargin), FInt(forecast.expectedValue))
        afterError == FSub(dataQuality, FMin(FInt(20), FMul(errorPct, FInt(100))))
        score == FSub(afterError, FMin(FInt(20), FNum(40 * risk.volatility)))
    IN  FMax(FZero, FMin(FInt(100), FRound(score)))

\* The recommendation, without the description text.
\* recommendedMaxPosition = positionValue * 0.05 / var95 is kept as an exact
\* fraction: var95 is in units of 1e-3, so it is positionValue * 50 / var95.
generateDecision(symbol, forecast, risk, positionValue, priceData, now) ==
    LET decisionType == determineDecisionType(forecast, risk, positionValue)
        dataQuality == calculateDataQuality(forecast, risk, priceData)
    IN  [type |-> decisionType,
         title |-> getDecisionTitle(decisionType),
         confidenceScore |-> calculateConfidenceScore(dataQuality, forecast, risk),
         urgency |-> determineUrgency(risk, calculateProbabilityOfLoss(forecast, positionValue)),
         justification |->
             [forecastExpected |-> forecast.expectedValue,
              forecastLower |-> forecast.lowerBound,
              forecastUpper |-> forecast.upperBound,
              volatility |-> risk.volatility,
              var95 |-> risk.var95,
              maxDrawdown |-> risk.maxDrawdown,
              dataQuality |-> dataQuality],
         riskAssessment |->
             [worstCaseLoss |-> positionValue * risk.cvar95,
              worstCaseLossPct |-> risk.cvar95,
              probabilityOfLoss |-> calculateProbabilityOfLoss(forecast, positionValue),
              recommendedMaxPosition |-> Div(positionValue * 50, risk.var95)],
         suggestedAction |-> buildSuggestedAction(decisionType, positionValue, risk, forecast),
         alternatives |-> generateAlternatives(decisionType, forecast, risk, positionValue),
         generatedAt |-> now]

\* Optional fields are << >> when undefined and <<v>> when set.
generateRiskCertificate(symbol, forecast, risk, positionValue, rec, now, nonce) ==
    [certificateId |-> <<now, nonce>>,
     generatedAt |-> now,
     version |-> "1.0.0",
     inputs |-> [asset |-> symbol,
                 currentPrice |-> forecast.expectedValue,
                 positionValue |-> positionValue,
                 forecastHorizon |-> forecast.forecastHorizon,
                 confidenceLevel |-> forecast.confidenceLevel,
                 dataPoints |-> forecast.inputDataPoints],
     model |-> [name |-> forecast.model, parameters |-> forecast.modelParams],
     outputs |-> [forecast |-> [expected |-> forecast.expectedValue,
                                lowerBound |-> forecast.lowerBound,
                                upperBound |-> forecast.upperBound,
                                errorMargin |-> forecast.errorMargin],
                  risk |-> [volatility |-> risk.volatility,
                            var95 |-> risk.var95,
                            var99 |-> risk.var99,
                            cvar95 |-> risk.cvar95,
                            maxDrawdown |-> risk.maxDrawdown],
                  decision |-> [recommendation |-> rec.title,
                                confidence |-> rec.confidenceScore,
                                worstCase |-> rec.riskAssessment.worstCaseLoss]],
     assumptions |-> 5,
     limitations |-> 5,
     verifiedBy |-> << >>,
     verifiedAt |-> << >>,
     approvalReasoning |-> << >>]

\* The inputs the model calls the decision engine with.  The pairs stay off the
\* exact products lowerBound * 1.1 and lowerBound * 1.05, where the rounding of
\* the binary product decides the comparison.
ForecastPairs ==
    { [expectedValue |-> 100, lowerBound |-> 100],   \* below both factors
      [expectedValue |-> 104, lowerBound |-> 100],   \* just below 1.05 * lower
      [expectedValue |-> 108, lowerBound |-> 100],   \* between the two factors
      [expectedValue |-> 112, lowerBound |-> 100],   \* just above 1.1 * lower
      [expectedValue |-> 120, lowerBound |-> 100],   \* above both
      [expectedValue |-> 0, lowerBound |-> 0],
      [expectedValue |-> -100, lowerBound |-> -100], \* a negative forecast without spread
      [expectedValue |-> 2, lowerBound |-> 0],       \* break-even at z = -1.96
      [expectedValue |-> -1, lowerBound |-> -3] }    \* break-even at z = 0.98

MakeForecast(pair) ==
    [expectedValue |-> pair.expectedValue, lowerBound |-> pair.lowerBound,
     upperBound |-> 2 * pair.expectedValue - pair.lowerBound,
     errorMargin |-> pair.expectedValue - pair.lowerBound,
     confidenceLevel |-> 95, model |-> "ensemble", modelParams |-> << >>,
     inputDataPoints |-> 50, forecastHorizon |-> 7]

MakeRisk(vol, var, dd, unc) ==
    [volatility |-> vol, var95 |-> var, var99 |-> 2 * var, cvar95 |-> (3 * var) \div 2,
     maxDrawdown |-> (4 * dd) \div 3, currentDrawdown |-> dd, relativeUncertainty |-> unc]

Volatilities == {0, 500, 600}
Var95s1000 == {0, 49, 50, 100, 120}
Drawdowns == {0, 150, 160}
Uncertainties == {0, 20, 30}
PositionValues == {0, 1000}

\* Inputs of poor quality: stale price data, or a forecast of few points.
QualityInputs ==
    { [forecast |-> [MakeForecast(fp) EXCEPT !.inputDataPoints = n],
       risk |-> MakeRisk(vol, 0, 0, unc),
       positionValue |-> 1000, priceData |-> [isStale |-> st, relativeUncertainty |-> unc]] :
      fp \in ForecastPairs, vol \in Volatilities, unc \in Uncertainties,
      st \in BOOLEAN, n \in {10, 50} }

DecisionInputs ==
    { [forecast |-> MakeForecast(fp), risk |-> MakeRisk(vol, var, dd, unc),
       positionValue |-> pv, priceData |-> [isStale |-> FALSE, relativeUncertainty |-> unc]] :
      fp \in ForecastPairs, vol \in Volatilities, var \in Var95s1000,
      dd \in Drawdowns, unc \in Uncertainties, pv \in PositionValues }
    \cup QualityInputs

\* A caller holds its inputs and calls the decision engine on them.
GenerateDecision ==
    /\ decision = NoDecision
    /\ decision' = generateDecision("SOL", decisionInput.forecast, decisionInput.risk,
                                    decisionInput.positionValue, decisionInput.priceData, 0)
    /\ UNCHANGED <<decisionInput, storeVars, allocVars, hookVars, engineVars>>

InitDecision ==
    /\ decisionInput \in DecisionInputs
    /\ decision = NoDecision
    /\ InitStoreVars /\ InitAllocVars /\ InitHookVars /\ InitEngineVars

NextDecision == GenerateDecision

SpecDecision == InitDecision /\ [][NextDecision]_vars

(***************************************************************************)
(* Properties of the decision engine.                                      *)
(***************************************************************************)
DecisionReturned == decision # NoDecision

Rule1 ==
    decisionInput.risk.volatility > 500
        /\ 10 * decisionInput.forecast.expectedValue < 11 * decisionInput.forecast.lowerBound
Rule2 == decisionInput.risk.var95 > 100
Rule3 == decisionInput.risk.currentDrawdown > 150
Rule4 == decisionInput.risk.relativeUncertainty > 20
Rule5 ==
    20 * decisionInput.forecast.expectedValue > 21 * decisionInput.forecast.lowerBound
        /\ decisionInput.risk.var95 < 50

\* C8: the decision type is that of the first matching rule, in the fixed order
\* of the five rules, and hold when none matches; whenever rule 1 matches the type
\* is reduce_exposure whatever the other metrics are.
C8_FirstMatchingRule ==
    DecisionReturned =>
        /\ Rule1 => decision.type = "reduce_exposure"
        /\ (~Rule1 /\ Rule2) => decision.type = "add_collateral"
        /\ (~Rule1 /\ ~Rule2 /\ Rule3) => decision.type = "reduce_exposure"
        /\ (~Rule1 /\ ~Rule2 /\ ~Rule3 /\ Rule4) => decision.type = "increase_stable"
        /\ (~Rule1 /\ ~Rule2 /\ ~Rule3 /\ ~Rule4 /\ Rule5) => decision.type = "take_profit"
        /\ (~Rule1 /\ ~Rule2 /\ ~Rule3 /\ ~Rule4 /\ ~Rule5) => decision.type = "hold"

\* Rule 1 matches together with every later rule that can match with it.
C8_Witness ==
    /\ DecisionReturned
    /\ Rule1 /\ Rule2 /\ Rule3 /\ Rule4
    /\ decision.type = "reduce_exposure"

(***************************************************************************)
(* useDecision                                                             *)
(*                                                                         *)
(* The hook holds recommendation, certificate, isGenerating and status.    *)
(* generate sets two of them at once and leaves the rest to a callback     *)
(* that setTimeout runs 300 ms later; callbacks with the same delay run    *)
(* in the order they were scheduled, so timers is a queue.  Every call is  *)
(* made against the latest rendered state.                                 *)
(***************************************************************************)
MaxPending == 2        \* generate callbacks waiting at one time
MaxClock == 2          \* Date.now() readings the model tells apart
MaxNonce == 1          \* random suffixes of a certificate id

HookPositionValue == 1000

\* The forecast / risk / price inputs generate is called with.
HookRequests ==
    { [forecast |-> MakeForecast([expectedValue |-> 100, lowerBound |-> 100]),
       risk |-> MakeRisk(600, 120, 160, 30),
       priceData |-> [isStale |-> FALSE, relativeUncertainty |-> 30]],
      [forecast |-> MakeForecast([expectedValue |-> 120, lowerBound |-> 100]),
       risk |-> MakeRisk(0, 0, 0, 0),
       priceData |-> [isStale |-> FALSE, relativeUncertainty |-> 0]] }

\* reasoning is optional: << >> when the caller passes none.
Reasonings == {<< >>, <<"ok">>, <<"too risky">>}

\* A plausible slip: the copy is re-issued, with a new generatedAt.
withVerificationRestamped(cert, reasoning, now) ==
    [cert EXCEPT !.generatedAt = now,
                 !.verifiedBy = <<"user">>,
                 !.verifiedAt = <<now>>,
                 !.approvalReasoning = reasoning]

\* { ...certificate, verifiedBy: 'user', verifiedAt: Date.now(), approvalReasoning: reasoning }
withVerification(cert, reasoning, now) ==
    [cert EXCEPT !.verifiedBy = <<"user">>,
                 !.verifiedAt = <<now>>,
                 !.approvalReasoning = reasoning]

Generate(req) ==
    /\ Len(timers) < MaxPending
    /\ isGenerating' = TRUE
    /\ status' = "pending"
    /\ timers' = Append(timers, req)
    /\ lastHookCall' = [op |-> "generate"]
    /\ UNCHANGED <<recommendation, certificate, clock>>
    /\ UNCHANGED <<storeVars, allocVars, decisionVars, engineVars>>

\* The callback of the oldest pending generate runs.
TimerFires(nonce) ==
    /\ timers # << >>
    /\ LET req == Head(timers)
           rec == generateDecision("SOL", req.forecast, req.risk, HookPositionValue,
                                   req.priceData, clock)
           cert == generateRiskCertificate("SOL", req.forecast, req.risk,
                                           HookPositionValue, rec, clock, nonce)
       IN  /\ recommendation' = rec
           /\ certificate' = cert
    /\ isGenerating' = FALSE
    /\ timers' = Tail(timers)
    /\ lastHookCall' = [op |-> "timer"]
    /\ UNCHANGED <<status, clock>>
    /\ UNCHANGED <<storeVars, allocVars, decisionVars, engineVars>>

Approve(reasoning) ==
    /\ status' = "approved"
    /\ certificate' = IF certificate # NoCertificate
                      THEN withVerification(certificate, reasoning, clock)
                      ELSE certificate
    /\ lastHookCall' = [op |-> "approve"]
    /\ UNCHANGED <<recommendation, isGenerating, timers, clock>>
    /\ UNCHANGED <<storeVars, allocVars, decisionVars, engineVars>>

Reject(reasoning) ==
    /\ status' = "rejected"
    /\ certificate' = IF certificate # NoCertificate
                      THEN withVerification(certificate, reasoning, clock)
                      ELSE certificate
    /\ lastHookCall' = [op |-> "reject"]
    /\ UNCHANGED <<recommendation, isGenerating, timers, clock>>
    /\ UNCHANGED <<storeVars, allocVars, decisionVars, engineVars>>

\* Time passes.
Tick ==
    /\ clock < MaxClock
    /\ clock' = clock + 1
    /\ lastHookCall' = [op |-> "tick"]
    /\ UNCHANGED <<recommendation, certificate, isGenerating, status, timers>>
    /\ UNCHANGED <<storeVars, allocVars, decisionVars, engineVars>>

InitHook ==
    InitStoreVars /\ InitAllocVars /\ InitDecisionVars /\ InitHookVars /\ InitEngineVars

NextHook ==
    \/ \E req \in HookRequests : Generate(req)
    \/ \E nonce \in 0..MaxNonce : TimerFires(nonce)
    \/ \E reasoning \in Reasonings : Approve(reasoning)
    \/ \E reasoning \in Reasonings : Reject(reasoning)
    \/ Tick

SpecHook == InitHook /\ [][NextHook]_vars

\* The risk metrics at their insufficient-data defaults.
DegenerateRisk ==
    /\ decisionInput.risk.volatility = 0
    /\ decisionInput.risk.var95 = 0
    /\ decisionInput.risk.cvar95 = 0
    /\ decisionInput.risk.currentDrawdown = 0
    /\ decisionInput.risk.relativeUncertainty = 0

\* What a call of generateDecision returned is a recommendation of one of the
\* five types, with a suggested action.
ReturnsRecommendation ==
    DecisionReturned =>
        /\ decision.type \in {"hold", "take_profit", "reduce_exposure", "add_collateral",
                              "increase_stable"}
        /\ decision.suggestedAction.type \in {"hold", "sell", "swap", "deposit"}

\* C16 as stated: generateDecision never fails and, with degenerate risk metrics,
\* returns hold with a suggested action of amount 0, for every forecast.
C16_DegenerateHolds ==
    /\ ReturnsRecommendation
    /\ (DecisionReturned /\ DegenerateRisk) =>
           /\ decision.type = "hold"
           /\ decision.suggestedAction.type = "hold"
           /\ decision.suggestedAction.amount = 0

\* C16, as the code has it: generateDecision never fails and, with degenerate
\* risk metrics, returns hold with amount 0 unless the forecast's expectedValue
\* exceeds 1.05 times its lowerBound; then rule 5 matches (var95 = 0 < 0.05) and
\* it returns take_profit, selling a tenth of the position.
C16_DegenerateHoldsOrTakesProfit ==
    /\ ReturnsRecommendation
    /\ (DecisionReturned /\ DegenerateRisk /\ ~Rule5) =>
           /\ decision.type = "hold"
           /\ decision.suggestedAction.type = "hold"
           /\ decision.suggestedAction.amount = 0
    /\ (DecisionReturned /\ DegenerateRisk /\ Rule5) =>
           /\ decision.type = "take_profit"
           /\ decision.suggestedAction.type = "sell"
           /\ decision.suggestedAction.amount = decisionInput.positionValue * 100

\* Degenerate risk metrics, a forecast above 1.05 times its lower bound, and a
\* position of 1000: the engine proposes to sell 100.
C16_Witness ==
    /\ DecisionReturned /\ DegenerateRisk
    /\ decisionInput.forecast.expectedValue = 108
    /\ decisionInput.positionValue = 1000
    /\ decision.type = "take_profit"
    /\ decision.suggestedAction.amount = 100000

(***************************************************************************)
(* Properties of useDecision.                                              *)
(***************************************************************************)
IsVerdictCall(call) == call.op \in {"approve", "reject"}

Verified(cert) == cert # NoCertificate /\ cert.verifiedBy # << >>

VerificationOf(cert) ==
    <<cert.verifiedBy, cert.verifiedAt, cert.approvalReasoning>>

ContentOf(cert) ==
    <<cert.certificateId, cert.generatedAt, cert.version, cert.inputs, cert.model,
      cert.outputs, cert.assumptions, cert.limitations>>

\* C9: once a pending recommendation / certificate pair has been approved or
\* rejected, a later approve or reject leaves status and the certificate's
\* verifiedBy, verifiedAt and approvalReasoning unchanged.
C9_VerdictSetOnce ==
    [][(/\ IsVerdictCall(lastHookCall')
        /\ Verified(certificate)
        /\ status \in {"approved", "rejected"})
       => (/\ status' = status
           /\ VerificationOf(certificate') = VerificationOf(certificate))]_vars

\* C10: approve and reject leave the held recommendation as it is, and of a held
\* certificate they change nothing but verifiedBy, verifiedAt and
\* approvalReasoning; when no certificate is held none appears.
C10_VerdictFrame ==
    [][IsVerdictCall(lastHookCall')
       => (/\ recommendation' = recommendation
           /\ (certificate = NoCertificate) = (certificate' = NoCertificate)
           /\ certificate # NoCertificate
                => ContentOf(certificate') = ContentOf(certificate))]_vars

\* A certificate issued at one clock reading was approved at a later one.
C10_Witness ==
    /\ lastHookCall.op = "approve"
    /\ Verified(certificate)
    /\ recommendation # NoRecommendation
    /\ certificate.verifiedAt # <<certificate.generatedAt>>
    /\ certificate.approvalReasoning = <<"ok">>

\* C29: under every interleaving of generate, its delayed completions, approve
\* and reject, whenever status is approved or rejected a certificate is held
\* and the held certificate carries verifiedBy and verifiedAt.
C29_VerdictHasVerifiedCertificate ==
    status \in {"approved", "rejected"} =>
        /\ certificate # NoCertificate
        /\ certificate.verifiedBy # << >>
        /\ certificate.verifiedAt # << >>

\* The part of C29 that holds: a verdict given while a certificate is held and
\* no generate is pending leaves a verified certificate, until the next
\* completion of a generate.
C29_VerdictOnHeldCertificateVerifies ==
    [][(lastHookCall'.op \in {"approve", "reject"} /\ lastHookCall' # lastHookCall
            /\ certificate # NoCertificate)
          => /\ status' \in {"approved", "rejected"}
             /\ certificate'.verifiedBy # << >>
             /\ certificate'.verifiedAt # << >>]_vars

(***************************************************************************)
(* Forecast engine                                                          *)
(*                                                                         *)
(* Units.  Stored prices are integers and stored timestamps are integers   *)
(* in hours, as in the store above; horizon is an integer number of steps; *)
(* confidenceLevel is an integer in units of 1e-3 (950 is 0.95).  Every    *)
(* computed quantity is a fixed-point number.  A function that returns     *)
(* null returns Null.                                                      *)
(***************************************************************************)
Null == [model |-> "null"]

MinRegressionPoints == 10     \* prices.length < 10
MinSmoothingPoints == 10      \* prices.length < 10
MinMeanReversionPoints == 20  \* prices.length < 20
SmoothingAlpha == 300         \* alpha = 0.3
SmoothingBeta == 100          \* beta = 0.1
MinTheta == 10                \* Math.max(0.01, ...)
DefaultZValue == 1960         \* zTable[level] || 1.96
MaxTableDf == 30              \* df > 30

FPrices(mh, symbol) ==
    LET ps == getPriceArray(mh, symbol) IN Stored([i \in 1..Len(ps) |-> FInt(ps[i])])

\* Math.round(confidenceLevel * 100) / 100, in units of 1e-3.
roundLevel(confidenceLevel) == ((confidenceLevel + 5) \div 10) * 10

\* getZValue of the forecast engine.
getZValue(confidenceLevel) ==
    LET level == roundLevel(confidenceLevel)
    IN  CASE level = 800 -> FNum(1282)
          [] level = 900 -> FNum(1645)
          [] level = 950 -> FNum(1960)
          [] level = 990 -> FNum(2576)
          [] OTHER -> FNum(DefaultZValue)

\* tTable[level][closestDf], for a level the table has.
tTable(level, closestDf) ==
    CASE level = 900 -> (CASE closestDf = 5 -> 2015 [] closestDf = 10 -> 1812
                           [] closestDf = 20 -> 1725 [] OTHER -> 1697)
      [] level = 950 -> (CASE closestDf = 5 -> 2571 [] closestDf = 10 -> 2228
                           [] closestDf = 20 -> 2086 [] OTHER -> 2042)
      [] OTHER -> (CASE closestDf = 5 -> 4032 [] closestDf = 10 -> 3169
                     [] closestDf = 20 -> 2845 [] OTHER -> 2750)

getTValue(confidenceLevel, df) ==
    LET level == roundLevel(confidenceLevel)
        closestDf == IF df <= 5 THEN 5 ELSE IF df <= 10 THEN 10
                     ELSE IF df <= 20 THEN 20 ELSE 30
    IN  IF df > MaxTableDf THEN getZValue(confidenceLevel)
        ELSE IF level \notin {900, 950, 990} THEN getZValue(confidenceLevel)
        ELSE FNum(tTable(level, closestDf))

\* linearRegression of simple-statistics on the pairs (xs[i], ys[i]), two or
\* more of them: m = (n*sumXY - sumX*sumY) / (n*sumXX - sumX*sumX) and
\* b = sumY/n - m*sumX/n.
linearRegression(xs, ys) ==
    Bind3(FInt(Len(xs)), FSum(xs), FSum(ys), LAMBDA n, sumX, sumY :
    LET sumXX == FSum([i \in 1..Len(xs) |-> FMul(xs[i], xs[i])])
        sumXY == FSum([i \in 1..Len(xs) |-> FMul(xs[i], ys[i])])
    IN  Bind(FDiv(FSub(FMul(n, sumXY), FMul(sumX, sumY)),
                  FSub(FMul(n, sumXX), FMul(sumX, sumX))),
             LAMBDA m : [m |-> m, b |-> FSub(FDiv(sumY, n), FDiv(FMul(m, sumX), n))]))

\* A plausible slip: the line is evaluated without its slope.
linearRegressionLineFlat(regression, x) == regression.b

\* linearRegressionLine(regression)(x).
linearRegressionLine(regression, x) == FAdd(regression.b, FMul(regression.m, x))

\* lowerBound, upperBound and errorMargin as every model derives them from its
\* point estimate and its margin of error.
withInterval(expectedValue, marginOfError) ==
    [expectedValue |-> expectedValue,
     lowerBound |-> FMax(FZero, FSub(expectedValue, marginOfError)),
     upperBound |-> FAdd(expectedValue, marginOfError),
     errorMargin |-> marginOfError]

forecastRollingRegression(mh, symbol, horizon, confidenceLevel) ==
    Bind2(FPrices(mh, symbol), getTimestampArray(mh, symbol), LAMBDA prices, timestamps :
    IF Len(prices) < MinRegressionPoints THEN Null
    ELSE
    Bind(Stored([i \in 1..Len(timestamps) |->
                    FDiv(FInt(timestamps[i] - timestamps[1]), FInt(HoursPerDay))]),
         LAMBDA timeIndex :
    Bind(linearRegression(timeIndex, prices), LAMBDA regression :
    Bind(FSum([i \in 1..Len(prices) |->
                  FSquare(FSub(prices[i], linearRegressionLine(regression, timeIndex[i])))]),
         LAMBDA ssResidual :
    Bind3(FSqrt(FDiv(ssResidual, FInt(Len(prices)))),
          FAdd(timeIndex[Len(timeIndex)], FInt(horizon)),
          FMean(timeIndex),
          LAMBDA rmse, forecastTime, timeMean :
    LET yMean == FMean(prices)
        ssTotal == FSumSq(prices, yMean)
        rSquared == FSub(FOne, FDiv(ssResidual, ssTotal))
        expectedValue == linearRegressionLine(regression, forecastTime)
        n == FInt(Len(prices))
        sxx == FSumSq(timeIndex, timeMean)
        timeDistance == FDiv(FSquare(FSub(forecastTime, timeMean)), sxx)
        seForecast == FMul(rmse, FSqrt(FAdd(FAdd(FOne, FDiv(FOne, n)), timeDistance)))
        tValue == getTValue(confidenceLevel, Len(prices) - 2)
        marginOfError == FMul(tValue, seForecast)
    IN  Bind(withInterval(expectedValue, marginOfError), LAMBDA interval :
            [expectedValue |-> interval.expectedValue,
             lowerBound |-> interval.lowerBound,
             upperBound |-> interval.upperBound,
             errorMargin |-> interval.errorMargin,
             confidenceLevel |-> confidenceLevel,
             model |-> "rolling_regression",
             modelParams |-> [alpha |-> regression.b, beta |-> regression.m,
                              rSquared |-> rSquared, rmse |-> rmse],
             inputDataPoints |-> Len(prices),
             forecastHorizon |-> horizon,
             rSquared |-> rSquared,
             rmse |-> rmse]))))))

\* One iteration of the smoothing loops: the one-step-ahead residual of
\* prices[i] is recorded, then level and trend are updated.  The code runs the
\* recursion twice from the same start, once for level and trend and once for the
\* residuals; both passes compute the same levels and trends.
holtStep(st, prices, i, alpha, beta) ==
    Bind(FAdd(st.level, st.trend), LAMBDA forecast :
    Bind(FAdd(FMul(alpha, prices[i]), FMul(FSub(FOne, alpha), forecast)), LAMBDA level :
    LET residual == FSub(prices[i], forecast)
        trend == FAdd(FMul(beta, FSub(level, st.level)), FMul(FSub(FOne, beta), st.trend))
    IN  [level |-> level, trend |-> trend, residuals |-> Append(st.residuals, residual)]))

RECURSIVE holtLoop(_, _, _, _, _)
holtLoop(st, prices, i, alpha, beta) ==
    IF i > Len(prices) THEN st
    ELSE Bind(holtStep(st, prices, i, alpha, beta), LAMBDA next :
             IF next.level = next.level THEN holtLoop(next, prices, i + 1, alpha, beta)
             ELSE st)

forecastExponentialSmoothing(mh, symbol, horizon, alpha, beta, confidenceLevel) ==
    Bind(FPrices(mh, symbol), LAMBDA prices :
    IF Len(prices) < MinSmoothingPoints THEN Null
    ELSE
    Bind(holtLoop([level |-> prices[1], trend |-> FSub(prices[2], prices[1]),
                   residuals |-> << >>],
                  prices, 2, alpha, beta),
         LAMBDA final :
    Bind(final.residuals, LAMBDA residuals :
    LET expectedValue == FAdd(final.level, FMul(FInt(horizon), final.trend))
        residualStdDev == standardDeviation(residuals)
        zValue == getZValue(confidenceLevel)
        horizonScale == FSqrt(FInt(horizon))
        marginOfError == FMul(FMul(zValue, residualStdDev), horizonScale)
    IN  Bind(withInterval(expectedValue, marginOfError), LAMBDA interval :
            [expectedValue |-> interval.expectedValue,
             lowerBound |-> interval.lowerBound,
             upperBound |-> interval.upperBound,
             errorMargin |-> interval.errorMargin,
             confidenceLevel |-> confidenceLevel,
             model |-> "exponential_smoothing",
             inputDataPoints |-> Len(prices),
             forecastHorizon |-> horizon,
             rmse |-> FSqrt(FMean([i \in 1..Len(residuals) |-> FSquare(residuals[i])]))]))))

forecastMeanReversion(mh, symbol, horizon, confidenceLevel) ==
    Bind(FPrices(mh, symbol), LAMBDA prices :
    IF Len(prices) < MinMeanReversionPoints THEN Null
    ELSE
    Bind2(FMean(prices),
          Stored([i \in 1..(Len(prices) - 1) |-> FSub(prices[i + 1], prices[i])]),
          LAMBDA longTermMean, returns :
    Bind2(SubSeq(returns, 2, Len(returns)), SubSeq(returns, 1, Len(returns) - 1),
          LAMBDA y, x :
    Bind3(FMean(x), FMean(y), FSumSq(x, FMean(x)), LAMBDA xMean, yMean, denominator :
    Bind(IF denominator # FZero
         THEN FDiv(FSum([i \in 1..Len(x) |-> FMul(FSub(x[i], xMean), FSub(y[i], yMean))]),
                   denominator)
         ELSE FZero,
         LAMBDA phi :
    Bind2(FMax(FNum(MinTheta), FNeg(FLn(FAbs(phi)))), standardDeviation(returns),
          LAMBDA theta, returnStdDev :
    LET currentPrice == prices[Len(prices)]
        deviation == FSub(currentPrice, longTermMean)
        decayFactor == FExp(FMul(FNeg(theta), FInt(horizon)))
        expectedValue == FAdd(longTermMean, FMul(deviation, decayFactor))
        variance == FMul(FDiv(FMul(returnStdDev, returnStdDev), FMul(FInt(2), theta)),
                         FSub(FOne, FExp(FMul(FMul(FInt(-2), theta), FInt(horizon)))))
        stdDev == FSqrt(variance)
        zValue == getZValue(confidenceLevel)
        marginOfError == FMul(zValue, stdDev)
    IN  Bind(withInterval(expectedValue, marginOfError), LAMBDA interval :
            [expectedValue |-> interval.expectedValue,
             lowerBound |-> interval.lowerBound,
             upperBound |-> interval.upperBound,
             errorMargin |-> interval.errorMargin,
             confidenceLevel |-> confidenceLevel,
             model |-> "mean_reversion",
             inputDataPoints |-> Len(prices),
             forecastHorizon |-> horizon,
             rmse |-> returnStdDev])))))))

\* f.rmse || 1: a rmse of 0 or NaN is replaced by 1.
rmseOrOne(f) == IF FIsNaN(f.rmse) \/ f.rmse = FZero THEN FOne ELSE f.rmse

\* Math.min(...xs) and Math.max(...xs) over a non-empty sequence of numbers.
RECURSIVE FMinOf(_)
FMinOf(xs) == IF Len(xs) = 1 THEN xs[1] ELSE FMin(FMinOf(SubSeq(xs, 1, Len(xs) - 1)), xs[Len(xs)])

RECURSIVE FMaxOf(_)
FMaxOf(xs) == IF Len(xs) = 1 THEN xs[1] ELSE FMax(FMaxOf(SubSeq(xs, 1, Len(xs) - 1)), xs[Len(xs)])

\* The forecasts array of forecastEnsemble: the results that are not null, in
\* the order regression, smoothing, mean reversion.
presentForecasts(regression, smoothing, meanRev) ==
    (IF regression # Null THEN <<regression>> ELSE << >>)
    \o (IF smoothing # Null THEN <<smoothing>> ELSE << >>)
    \o (IF meanRev # Null THEN <<meanRev>> ELSE << >>)

\* A variant that reports the number of models combined (modelsUsed) instead.
maxInputDataPointsCountsModels(fs) == Len(fs)

\* Math.max(...forecasts.map(f => f.inputDataPoints)).
maxInputDataPoints(fs) ==
    CHOOSE m \in {fs[i].inputDataPoints : i \in 1..Len(fs)} :
        \A i \in 1..Len(fs) : fs[i].inputDataPoints <= m

\* The combination step of forecastEnsemble for two or more results.
combineForecasts(fs, horizon, confidenceLevel) ==
    Bind(Stored([i \in 1..Len(fs) |-> FDiv(FOne, FMul(rmseOrOne(fs[i]), rmseOrOne(fs[i])))]),
         LAMBDA weights :
    Bind(FSum(weights), LAMBDA totalWeight :
    Bind3(Stored([i \in 1..Len(fs) |-> FDiv(weights[i], totalWeight)]),
          FMinOf([i \in 1..Len(fs) |-> fs[i].lowerBound]),
          FMaxOf([i \in 1..Len(fs) |-> fs[i].upperBound]),
          LAMBDA normalizedWeights, lowerBound, upperBound :
    LET expectedValue == FSum([i \in 1..Len(fs) |->
                                  FMul(fs[i].expectedValue, normalizedWeights[i])])
        errorMargin == FDiv(FSub(upperBound, lowerBound), FInt(2))
        ensembleRmse == FSum([i \in 1..Len(fs) |->
                                 FMul(rmseOrOne(fs[i]), normalizedWeights[i])])
    IN  [expectedValue |-> expectedValue,
         lowerBound |-> lowerBound,
         upperBound |-> upperBound,
         errorMargin |-> errorMargin,
         confidenceLevel |-> confidenceLevel,
         model |-> "ensemble",
         inputDataPoints |-> maxInputDataPoints(fs),
         forecastHorizon |-> horizon,
         rmse |-> ensembleRmse])))

forecastEnsemble(mh, symbol, horizon, confidenceLevel) ==
    LET regression == forecastRollingRegression(mh, symbol, horizon, confidenceLevel)
        smoothing == forecastExponentialSmoothing(mh, symbol, horizon, FNum(SmoothingAlpha),
                                                  FNum(SmoothingBeta), confidenceLevel)
        meanRev == forecastMeanReversion(mh, symbol, horizon, confidenceLevel)
    IN  Bind(presentForecasts(regression, smoothing, meanRev), LAMBDA fs :
            IF Len(fs) = 0 THEN Null
            ELSE IF Len(fs) = 1 THEN fs[1]
            ELSE combineForecasts(fs, horizon, confidenceLevel))

(***************************************************************************)
(* The series the engines are run on.  A series is the window the store    *)
(* holds after the feed appended SeriesPoints(n, priceShape, timeShape).   *)
(***************************************************************************)
MaxSeriesLen == 24
SeriesLengths == {0, 1, 2, 9, 10, 19, 20, MaxSeriesLen}
PriceShapes ==
    {"flat", "rising", "falling", "zigzag", "crash", "fromzero", "surge", "slide"}
TimeShapes == {"daily", "sixhourly", "stalled"}

\* The i-th price of a shape: "falling" crosses zero, "crash" ends at zero,
\* "fromzero" starts there, "surge" rises by one a day until it jumps to 60 and
\* "slide" falls by one a day from 39 and stays above zero.
seriesPrice(shape, i, n) ==
    CASE shape = "flat" -> 7
      [] shape = "rising" -> i
      [] shape = "falling" -> 12 - i
      [] shape = "zigzag" -> (IF i % 3 = 1 THEN 3 ELSE IF i % 3 = 2 THEN 1 ELSE 2)
      [] shape = "fromzero" -> (IF i = 1 THEN 0 ELSE 3 + (i % 2))
      [] shape = "surge" -> (IF i = n THEN 60 ELSE i)
      [] shape = "slide" -> 40 - i
      [] OTHER -> (IF i = n THEN 0 ELSE 4 + (i % 2))

\* The i-th timestamp of a shape, in hours: a feed that publishes daily, every
\* six hours, or that has stalled and repeats one publish time.
seriesTime(shape, i) ==
    CASE shape = "daily" -> Now + HoursPerDay * (i - 1)
      [] shape = "sixhourly" -> Now + 6 * (i - 1)
      [] OTHER -> Now

SeriesPoints(n, priceShape, timeShape) ==
    [i \in 1..n |-> [price |-> seriesPrice(priceShape, i, n),
                     timestamp |-> seriesTime(timeShape, i),
                     confidence |-> 0]]

RECURSIVE addPrices(_, _, _)
addPrices(mh, symbol, points) ==
    IF points = << >> THEN mh
    ELSE addPrice(addPrices(mh, symbol, SubSeq(points, 1, Len(points) - 1)), symbol,
                  points[Len(points)])

\* The store after the feed appended the points to a new series of "SOL".
StoreHolds(points) ==
    /\ marketHistory = addPrices(<< >>, "SOL", points)
    /\ appended = [s \in Symbols |-> IF s = "SOL" THEN points ELSE << >>]
    /\ created = [s \in Symbols |-> IF s = "SOL" /\ points # << >> THEN "addPrice" ELSE "none"]
    /\ lastCall = IF points = << >> THEN [op |-> "none", symbol |-> "", point |-> NoPoint]
                  ELSE [op |-> "addPrice", symbol |-> "SOL", point |-> points[Len(points)]]

Horizons7 == {1, 7}
ConfidenceLevels == {900, 950, 990}

\* A caller runs the three models and the ensemble on the stored series.
ForecastCall ==
    /\ forecasts = NoResult
    /\ LET h == forecastArgs.horizon
           c == forecastArgs.confidenceLevel
       IN  forecasts' =
               [called |-> TRUE,
                regression |-> forecastRollingRegression(marketHistory, "SOL", h, c),
                smoothing |-> forecastExponentialSmoothing(marketHistory, "SOL", h,
                                  FNum(SmoothingAlpha), FNum(SmoothingBeta), c),
                meanRev |-> forecastMeanReversion(marketHistory, "SOL", h, c),
                ensemble |-> forecastEnsemble(marketHistory, "SOL", h, c)]
    /\ UNCHANGED <<forecastArgs, storeVars, allocVars, decisionVars, hookVars,
                   riskVars, cashflowVars, feedVars, policyVars>>

InitForecast ==
    /\ \E n \in SeriesLengths, ps \in PriceShapes, ts \in TimeShapes :
          StoreHolds(SeriesPoints(n, ps, ts))
    /\ forecastArgs \in [symbol : {"SOL"}, horizon : Horizons7,
                         confidenceLevel : ConfidenceLevels]
    /\ forecasts = NoResult
    /\ InitAllocVars /\ InitDecisionVars /\ InitHookVars /\ InitRiskVars /\ InitCashflowVars
    /\ InitFeedVars /\ InitPolicyVars

NextForecast == ForecastCall

SpecForecast == InitForecast /\ [][NextForecast]_vars

(***************************************************************************)
(* Risk metrics (riskMetrics.ts) and the store's getStatistics.            *)
(* Confidence levels are in units of 1e-3 as in the forecast engine.       *)
(***************************************************************************)
MinVarPoints == 10            \* prices.length < 10
MinStatisticsPoints == 2      \* series.prices.length < 2
DefaultZScore == 1645         \* zScores[confidenceLevel] || 1.645

\* getZScore: a lookup by the exact confidence level.
getZScore(confidenceLevel) ==
    CASE confidenceLevel = 800 -> FNum(842)
      [] confidenceLevel = 900 -> FNum(1282)
      [] confidenceLevel = 950 -> FNum(1645)
      [] confidenceLevel = 990 -> FNum(2326)
      [] confidenceLevel = 999 -> FNum(3090)
      [] OTHER -> FNum(DefaultZScore)

\* Math.log(prices[i] / prices[i - 1]) for i = 1 .. length - 1.
logReturns(prices) ==
    Stored([i \in 1..(Len(prices) - 1) |-> FLn(FDiv(prices[i + 1], prices[i]))])

\* The record both VaR functions return.
VarRecord(varRelative, positionValue) ==
    [varRelative |-> varRelative, varAbsolute |-> FMul(varRelative, FInt(positionValue))]

calculateVaRParametric(mh, symbol, confidenceLevel, positionValue, timeHorizon) ==
    Bind(FPrices(mh, symbol), LAMBDA prices :
    IF Len(prices) < MinVarPoints THEN VarRecord(FZero, 0)
    ELSE
    Bind(logReturns(prices), LAMBDA returns :
    LET mu == FMean(returns)
        sigma == standardDeviation(returns)
        zScore == getZScore(confidenceLevel)
        horizonScale == FSqrt(FInt(timeHorizon))
        varReturn == FNeg(FSub(mu, FMul(FMul(zScore, sigma), horizonScale)))
    IN  VarRecord(FMax(FZero, varReturn), positionValue)))

\* Math.floor((1 - confidenceLevel) * length).  In binary 1 - 0.8 and 1 - 0.9 lie
\* just below 0.2 and 0.1, so an exact multiple is floored one lower; 1 - 0.95,
\* 1 - 0.99 and 1 - 0.999 lie just above.
percentileIndex(confidenceLevel, length) ==
    IF confidenceLevel \in {800, 900}
    THEN Max(0, ((1000 - confidenceLevel) * length - 1) \div 1000)
    ELSE ((1000 - confidenceLevel) * length) \div 1000

\* The comparator (a, b) => a - b orders xs consistently: it never returns NaN.
Sortable(xs) == \A i, j \in 1..Len(xs) : i # j => ~FIsNaN(FSub(xs[i], xs[j]))

\* The values [...xs].sort((a, b) => a - b)[k] can have (k is 0-based).  With a
\* consistent comparator it is the value of rank k; otherwise the order is
\* implementation-defined and any element can stand there.
SortedAt(xs, k) ==
    IF Sortable(xs)
    THEN {xs[i] : i \in {i \in 1..Len(xs) :
              /\ Cardinality({j \in 1..Len(xs) : FLt(xs[j], xs[i])}) <= k
              /\ k < Cardinality({j \in 1..Len(xs) : FLe(xs[j], xs[i])})}}
    ELSE {xs[i] : i \in 1..Len(xs)}

\* calculateVaRHistorical: the set of records it can return.
calculateVaRHistorical(mh, symbol, confidenceLevel, positionValue) ==
    Bind(FPrices(mh, symbol), LAMBDA prices :
    IF Len(prices) < MinVarPoints THEN {VarRecord(FZero, 0)}
    ELSE
    Bind(logReturns(prices), LAMBDA returns :
    LET index == Max(0, percentileIndex(confidenceLevel, Len(returns)))
    IN  {VarRecord(FAbs(varReturn), positionValue) : varReturn \in SortedAt(returns, index)}))

CvarRecord(cvarRelative, positionValue) ==
    [cvarRelative |-> cvarRelative, cvarAbsolute |-> FMul(cvarRelative, FInt(positionValue))]

\* A plausible slip: the tail is taken on the wrong side of the threshold.
FFilterGt(xs, threshold) == SelectSeq(xs, LAMBDA r : FGt(r, threshold))

\* returns.filter(r => r < varThreshold)
FFilterLt(xs, threshold) == SelectSeq(xs, LAMBDA r : FLt(r, threshold))

\* calculateCVaR: the set of records it can return, one for each record its call
\* of calculateVaRHistorical(symbol, confidenceLevel) can return.
calculateCVaR(mh, symbol, confidenceLevel, positionValue) ==
    Bind(FPrices(mh, symbol), LAMBDA prices :
    IF Len(prices) < MinVarPoints THEN {CvarRecord(FZero, 0)}
    ELSE
    Bind(logReturns(prices), LAMBDA returns :
    {Bind2(v.varRelative, FFilterLt(returns, FNeg(v.varRelative)),
           LAMBDA varRelative, tailReturns :
               IF Len(tailReturns) = 0 THEN CvarRecord(varRelative, positionValue)
               ELSE CvarRecord(FAbs(FMean(tailReturns)), positionValue)) :
         v \in calculateVaRHistorical(mh, symbol, confidenceLevel, 1)}))

\* The record getStatistics builds, without annualizedVolatility.  totalReturn
\* and the drawdowns are quotients of prices and are kept as exact fractions.
SeriesStatistics(mh, symbol) ==
    Bind3(getPriceArray(mh, symbol), getTimestampArray(mh, symbol), getDrawdown(mh, symbol),
          LAMBDA prices, timestamps, drawdown :
    Bind2(CHOOSE m \in {prices[i] : i \in 1..Len(prices)} :
              \A i \in 1..Len(prices) : m <= prices[i],
          CHOOSE m \in {prices[i] : i \in 1..Len(prices)} :
              \A i \in 1..Len(prices) : m >= prices[i],
          LAMBDA priceMin, priceMax :
    LET firstPrice == prices[1]
        lastPrice == prices[Len(prices)]
    IN  [model |-> "statistics",
         symbol |-> symbol,
         count |-> Len(prices),
         mean |-> FMean(FPrices(mh, symbol)),
         variance |-> FVariance(FPrices(mh, symbol)),
         stdDev |-> standardDeviation(FPrices(mh, symbol)),
         min |-> priceMin,
         max |-> priceMax,
         range |-> priceMax - priceMin,
         latestPrice |-> lastPrice,
         latestTimestamp |-> timestamps[Len(timestamps)],
         totalReturn |-> Div(lastPrice - firstPrice, firstPrice),
         maxDrawdown |-> drawdown.max,
         currentDrawdown |-> drawdown.current]))

\* A plausible slip: the statistics of a single point are computed, not refused.
getStatisticsOfOnePoint(mh, symbol) ==
    IF symbol \notin DOMAIN mh \/ Len(mh[symbol].prices) < 1 THEN Null
    ELSE SeriesStatistics(mh, symbol)

getStatistics(mh, symbol) ==
    IF symbol \notin DOMAIN mh \/ Len(mh[symbol].prices) < MinStatisticsPoints THEN Null
    ELSE SeriesStatistics(mh, symbol)

PositionValues1000 == {0, 1000}
TimeHorizons == {0, 1, 7}

\* The arguments of the calls: every position and horizon at the default
\* confidence level 0.95 of the historical VaR and the CVaR, and every position
\* at the levels 0.90 and 0.99.
RiskCalls ==
    [symbol : {"SOL"}, positionValue : PositionValues1000, timeHorizon : TimeHorizons,
     confidenceLevel : {950}]
    \cup [symbol : {"SOL"}, positionValue : PositionValues1000, timeHorizon : {1},
          confidenceLevel : {900, 990}]

\* A caller asks for the statistics of the stored series, for its parametric VaR
\* at the three confidence levels and for its historical VaR and CVaR at one.
RiskCall ==
    /\ riskResult = NoResult
    /\ LET pv == riskArgs.positionValue
           h == riskArgs.timeHorizon
           statistics == getStatistics(marketHistory, "SOL")
           var90 == calculateVaRParametric(marketHistory, "SOL", 900, pv, h)
           var95 == calculateVaRParametric(marketHistory, "SOL", 950, pv, h)
           var99 == calculateVaRParametric(marketHistory, "SOL", 990, pv, h)
           hists == calculateVaRHistorical(marketHistory, "SOL", riskArgs.confidenceLevel, pv)
           cvars == calculateCVaR(marketHistory, "SOL", riskArgs.confidenceLevel, pv)
       IN  \E hist \in hists, cvar \in cvars :
               riskResult' = [called |-> TRUE, statistics |-> statistics,
                              var90 |-> var90, var95 |-> var95, var99 |-> var99,
                              varHistorical |-> hist, cvar |-> cvar]
    /\ UNCHANGED <<riskArgs, storeVars, allocVars, decisionVars, hookVars,
                   forecastVars, cashflowVars, feedVars, policyVars>>

InitRisk ==
    /\ \E n \in SeriesLengths, ps \in PriceShapes :
          StoreHolds(SeriesPoints(n, ps, "daily"))
    /\ riskArgs \in RiskCalls
    /\ riskResult = NoResult
    /\ forecastArgs = [symbol |-> "SOL", horizon |-> 7, confidenceLevel |-> 950]
    /\ forecasts = NoResult
    /\ InitAllocVars /\ InitDecisionVars /\ InitHookVars /\ InitCashflowVars
    /\ InitFeedVars /\ InitPolicyVars

NextRisk == RiskCall \/ ForecastCall

SpecRisk == InitRisk /\ [][NextRisk]_vars

(***************************************************************************)
(* Cashflow engine (cashflowEngine.ts)                                      *)
(*                                                                         *)
(* Units.  Event amounts and the starting balance are integers (USD),      *)
(* timestamps are integers (hours), confidence levels are in units of      *)
(* 1e-3.  Computed values are fixed-point numbers.                         *)
(***************************************************************************)
CashflowNow == 3 * HoursPerDay     \* Date.now() during the call

\* getZValue of cashflowEngine.ts (the forecast engine has its own).
cashflowZValue(confidenceLevel) ==
    IF confidenceLevel >= 990 THEN FNum(2576)
    ELSE IF confidenceLevel >= 950 THEN FNum(1960)
    ELSE IF confidenceLevel >= 900 THEN FNum(1645)
    ELSE FNum(1280)

\* normalCdf for a finite z given in units of 1e-6, in units of 1e-6; the
\* coefficients are the source's, rounded to 1e-6.
normalCdfPoly(t) ==
    LET h4 == -1821256 + MulDiv(t, 1330274, FMicro)
        h3 == 1781478 + MulDiv(t, h4, FMicro)
        h2 == -356564 + MulDiv(t, h3, FMicro)
    IN  319382 + MulDiv(t, h2, FMicro)

\* p = d * t * (...), for t and d in units of 1e-6.
normalCdfTail(d, t) == MulDiv(MulDiv(d, t, FMicro), normalCdfPoly(t), FMicro)

normalCdfMicro(zm) ==
    Bind(Abs(zm), LAMBDA az :
    Bind(normalCdfTail(MulDiv(398942, ExpNeg(MulDiv(az, az, 2 * FMicro)), FMicro),
                       MulDiv(FMicro, FMicro, FMicro + MulDiv(231642, az, FMicro))),
         LAMBDA pm : IF zm > 0 THEN FMicro - pm ELSE pm))

\* normalCdf(z).  Beyond |z| = 8 the density factor is below 1e-14 and p is 0 in
\* units of 1e-6; NaN fails the test z > 0 and is returned as computed.
normalCdf(z) ==
    IF FIsNaN(z) THEN FNaN
    ELSE IF FIsInf(z) THEN (IF z[2] > 0 THEN FOne ELSE FZero)
    ELSE LET clamped == Max(-8 * FScale, Min(8 * FScale, z[2]))
         IN  FNum((normalCdfMicro(clamped * (FMicro \div FScale)) + (FMicro \div FScale) \div 2)
                      \div (FMicro \div FScale))

\* A plausible slip: events after now are not skipped.
isOutsideWindowPastOnly(e, start, now) == e.timestamp < start

\* if (e.timestamp < start || e.timestamp > now) continue;
isOutsideWindow(e, start, now) == e.timestamp < start \/ e.timestamp > now

\* A plausible slip: the index is not clamped, so an event at now has no bucket.
bucketIndexUnclamped(e, start, days) == (e.timestamp - start) \div HoursPerDay

\* Math.min(days - 1, Math.max(0, Math.floor((e.timestamp - start) / dayMs)))
bucketIndex(e, start, days) == Min(days - 1, Max(0, (e.timestamp - start) \div HoursPerDay))

\* buckets[idx] += e.amount over the events, in order; idx is 0-based.
RECURSIVE bucketSum(_, _, _, _, _)
bucketSum(events, idx, start, now, days) ==
    IF events = << >> THEN 0
    ELSE LET e == events[Len(events)]
             before == bucketSum(SubSeq(events, 1, Len(events) - 1), idx, start, now, days)
             eIdx == bucketIndex(e, start, days)
         IN  IF ~isOutsideWindow(e, start, now) /\ eIdx = idx THEN before + e.amount
             ELSE before

toDailyNetFlows(events, days, now) ==
    LET start == now - days * HoursPerDay
    IN  [k \in 1..days |-> bucketSum(events, k - 1, start, now, days)]

\* A plausible slip: the test denom > 0 is missing.
overdraftProbabilityUnguarded(expectedEnding, denom) ==
    normalCdf(FDiv(FSub(FZero, expectedEnding), denom))

\* denom > 0 ? normalCdf((0 - expectedEnding) / denom) : (expectedEnding < 0 ? 1 : 0)
overdraftProbability(expectedEnding, denom) ==
    IF FGt(denom, FZero) THEN normalCdf(FDiv(FSub(FZero, expectedEnding), denom))
    ELSE IF FLt(expectedEnding, FZero) THEN FOne ELSE FZero

forecastCashflow(startingBalance, events, horizonDays, lookbackDays, confidenceLevel, now) ==
    LET daily == toDailyNetFlows(events, lookbackDays, now)
        nonZero == \E k \in 1..Len(daily) : daily[k] # 0
    IN  IF ~nonZero THEN Null
        ELSE
        LET flows == Stored([k \in 1..Len(daily) |-> FInt(daily[k])])
            mu == FMean(flows)
            sigma == IF Len(daily) >= 2 THEN standardDeviation(flows) ELSE FZero
            expectedEnding == FAdd(FInt(startingBalance), FMul(FInt(horizonDays), mu))
            z == cashflowZValue(confidenceLevel)
            err == FMul(FMul(z, sigma), FSqrt(FInt(horizonDays)))
            denom == FMul(sigma, FSqrt(FInt(horizonDays)))
            pOverdraft == overdraftProbability(expectedEnding, denom)
        IN  [model |-> "cashflow",
             horizonDays |-> horizonDays,
             confidenceLevel |-> confidenceLevel,
             startingBalance |-> startingBalance,
             expectedEndingBalance |-> expectedEnding,
             lowerBound |-> FSub(expectedEnding, err),
             upperBound |-> FAdd(expectedEnding, err),
             errorMargin |-> err,
             inputDays |-> lookbackDays,
             meanDailyNet |-> mu,
             stdDailyNet |-> sigma,
             probabilityOfOverdraft |-> pOverdraft]

\* The calls the model makes.  An event lies before every window, in the oldest
\* day of a three-day window, at now (the last bucket by the clamp of idx) or
\* after now.
MaxEvents == 2
EventAmounts == {-50, 50}
EventTimes == {0, 30, CashflowNow, CashflowNow + 8}
CashflowEvents == [timestamp : EventTimes, amount : EventAmounts]
EventLists == UNION {[1..n -> CashflowEvents] : n \in 0..MaxEvents}
StartingBalances == {-100, 0, 100}
HorizonDays == {0, 7}
LookbackDays == {0, 1, 2, 3}
CashflowConfidenceLevels == {800, 950}

\* A caller holds its arguments and calls forecastCashflow on them; daily is what
\* its call of toDailyNetFlows returned.
ForecastCashflow ==
    /\ cashflowResult = NoResult
    /\ cashflowResult' =
           [called |-> TRUE,
            daily |-> toDailyNetFlows(cashflowArgs.events, cashflowArgs.lookbackDays,
                                      CashflowNow),
            result |-> forecastCashflow(cashflowArgs.startingBalance, cashflowArgs.events,
                                        cashflowArgs.horizonDays, cashflowArgs.lookbackDays,
                                        cashflowArgs.confidenceLevel, CashflowNow)]
    /\ UNCHANGED <<cashflowArgs, storeVars, allocVars, decisionVars, hookVars,
                   forecastVars, riskVars, feedVars, policyVars>>

InitCashflow ==
    /\ cashflowArgs \in [startingBalance : StartingBalances, events : EventLists,
                         horizonDays : HorizonDays, lookbackDays : LookbackDays,
                         confidenceLevel : CashflowConfidenceLevels]
    /\ cashflowResult = NoResult
    /\ InitStoreVars /\ InitAllocVars /\ InitDecisionVars /\ InitHookVars
    /\ InitForecastVars /\ InitRiskVars /\ InitFeedVars /\ InitPolicyVars

NextCashflow == ForecastCashflow

SpecCashflow == InitCashflow /\ [][NextCashflow]_vars

(***************************************************************************)
(* Pyth price-feed integration (pyth.ts)                                   *)
(*                                                                         *)
(* A feed id is the 64-digit hexadecimal name Hermes gives a price feed;   *)
(* the model keeps its first four digits.  Hermes serves many more feeds   *)
(* than the five of SUPPORTED_TOKENS: DogeFeedId is one of them.  A thrown *)
(* Error is modelled by its message, a returned value by the value.        *)
(***************************************************************************)
SUPPORTED_TOKENS ==
    << [symbol |-> "BTC", pythFeedId |-> "e62d", decimals |-> 8],
       [symbol |-> "ETH", pythFeedId |-> "ff61", decimals |-> 8],
       [symbol |-> "SOL", pythFeedId |-> "ef0d", decimals |-> 8],
       [symbol |-> "USDC", pythFeedId |-> "eaa0", decimals |-> 6],
       [symbol |-> "USDT", pythFeedId |-> "2b89", decimals |-> 6] >>

STALE_THRESHOLD_MS == 60000
MAX_ACCEPTABLE_UNCERTAINTY == [n |-> 1, d |-> 100]
Infinity == [n |-> 1, d |-> 0]
MsPerSecond == 1000

SupportedSymbols == {SUPPORTED_TOKENS[i].symbol : i \in DOMAIN SUPPORTED_TOKENS}
SupportedFeedIds == {SUPPORTED_TOKENS[i].pythFeedId : i \in DOMAIN SUPPORTED_TOKENS}

Threw(message) == [threw |-> TRUE, error |-> message]
Returned(value) == [threw |-> FALSE, value |-> value]

\* SUPPORTED_TOKENS.find(t => t.symbol === symbol), as the sequence of its hits.
tokensWithSymbol(symbol) == SelectSeq(SUPPORTED_TOKENS, LAMBDA t : t.symbol = symbol)

tokensWithFeedId(feedId) == SelectSeq(SUPPORTED_TOKENS, LAMBDA t : t.pythFeedId = feedId)

getFeedIdForSymbol(symbol) ==
    IF tokensWithSymbol(symbol) = << >> THEN Threw("Unsupported token")
    ELSE Returned(tokensWithSymbol(symbol)[1].pythFeedId)

getSymbolForFeedId(feedId) ==
    IF tokensWithFeedId(feedId) = << >> THEN "UNKNOWN"
    ELSE tokensWithFeedId(feedId)[1].symbol

getTokenConfig(symbol) ==
    IF tokensWithSymbol(symbol) = << >> THEN Threw("Unsupported token")
    ELSE Returned(tokensWithSymbol(symbol)[1])

RECURSIVE Pow10(_)
Pow10(e) == IF e = 0 THEN 1 ELSE 10 * Pow10(e - 1)

processPriceFeed(feed, now) ==
    LET priceValue == feed.price * Pow10(feed.expo)
        confidenceValue == feed.conf * Pow10(feed.expo)
        relativeUncertainty ==
            IF priceValue # 0 THEN Div(confidenceValue, Abs(priceValue)) ELSE Infinity
        publishTimeMs == feed.publishTime * MsPerSecond
        dataFreshnessMs == now - publishTimeMs
        isStale == dataFreshnessMs > STALE_THRESHOLD_MS
    IN  [symbol |-> getSymbolForFeedId(feed.id),
         price |-> priceValue,
         confidence |-> confidenceValue,
         publishTime |-> publishTimeMs,
         expo |-> feed.expo,
         relativeUncertainty |-> relativeUncertainty,
         dataFreshnessMs |-> dataFreshnessMs,
         isStale |-> isStale,
         isValid |-> ~isStale /\ Ge(MAX_ACCEPTABLE_UNCERTAINTY, relativeUncertainty)]

\* for (const priceData of processed) addPrice(priceData.symbol, ...)
RECURSIVE addProcessed(_, _)
addProcessed(mh, processed) ==
    IF processed = << >> THEN mh
    ELSE addProcessed(addPrice(mh, processed[1].symbol,
                               [price |-> processed[1].price,
                                timestamp |-> processed[1].publishTime,
                                confidence |-> processed[1].confidence]),
                      Tail(processed))

\* What a fetch does once Hermes has answered: the outcome and the store after it.
storeResponse(mh, response, now) ==
    IF ~response.ok THEN [outcome |-> Threw("Pyth API error"), mh |-> mh]
    ELSE IF ~response.hasParsed
    THEN [outcome |-> Threw("Invalid response format from Pyth API"), mh |-> mh]
    ELSE LET processed == [i \in DOMAIN response.parsed |->
                              processPriceFeed(response.parsed[i], now)]
         IN  [outcome |-> Returned(processed), mh |-> addProcessed(mh, processed)]

\* fetchPriceUpdates up to the request: symbols.map(getFeedIdForSymbol).
feedIdsOf(symbols) == [i \in DOMAIN symbols |-> getFeedIdForSymbol(symbols[i])]

MaxFeedPoints == 2       \* price points the feed stores in one run
FeedNow == 200 * MsPerSecond
RequestSymbols == {"SOL", "BTC", "DOGE"}
DogeFeedId == "dcef"
RequestFeedIds == {"ef0d", "e62d", DogeFeedId}
\* price, conf, expo and publishTime (in seconds) of the feeds Hermes answers with:
\* a fresh exact quote, a fresh uncertain one, a stale one and a stale price of 0.
FeedQuotes ==
    {[price |-> 5, conf |-> 0, expo |-> 0, publishTime |-> 190],
     [price |-> 5, conf |-> 1, expo |-> 1, publishTime |-> 190],
     [price |-> 5, conf |-> 0, expo |-> 0, publishTime |-> 100],
     [price |-> 0, conf |-> 1, expo |-> 1, publishTime |-> 100]}

\* The requests for one element of S or for two different ones.
Requests(S) == {<<a>> : a \in S} \cup {r \in {<<a, b>> : a \in S, b \in S} : r[1] # r[2]}

PythFeeds(id) ==
    {[id |-> id, price |-> q.price, conf |-> q.conf, expo |-> q.expo,
      publishTime |-> q.publishTime] : q \in FeedQuotes}

\* The answers of Hermes to a request for feedIds: a failure status, a body
\* without the parsed array, or one parsed feed for each requested id.
HermesResponses(feedIds) ==
    {[ok |-> FALSE], [ok |-> TRUE, hasParsed |-> FALSE]}
    \cup (IF Len(feedIds) = 1
          THEN {[ok |-> TRUE, hasParsed |-> TRUE, parsed |-> <<f>>] :
                   f \in PythFeeds(feedIds[1])}
          ELSE {[ok |-> TRUE, hasParsed |-> TRUE, parsed |-> <<f, g>>] :
                   f \in PythFeeds(feedIds[1]), g \in PythFeeds(feedIds[2])})

StoredPoints(mh) ==
    LET RECURSIVE count(_)
        count(S) == IF S = {} THEN 0
                    ELSE LET s == CHOOSE x \in S : TRUE
                         IN  Len(mh[s].prices) + count(S \ {s})
    IN  count(DOMAIN mh)

FetchAnswered(op, request, feedIds, response) ==
    LET after == storeResponse(marketHistory, response, FeedNow)
    IN  /\ StoredPoints(after.mh) <= MaxFeedPoints
        /\ marketHistory' = after.mh
        /\ pythCall' = [op |-> op, request |-> request, outcome |-> after.outcome]
        /\ UNCHANGED <<appended, created, lastCall>>
        /\ UNCHANGED <<allocVars, decisionVars, hookVars, forecastVars, riskVars,
                       cashflowVars, policyVars>>

FetchPriceUpdates(symbols) ==
    IF \E i \in DOMAIN symbols : feedIdsOf(symbols)[i].threw
    THEN /\ pythCall' = [op |-> "fetchPriceUpdates", request |-> symbols,
                         outcome |-> Threw("Unsupported token")]
         /\ UNCHANGED <<storeVars, allocVars, decisionVars, hookVars, forecastVars,
                        riskVars, cashflowVars, policyVars>>
    ELSE LET feedIds == [i \in DOMAIN symbols |-> feedIdsOf(symbols)[i].value]
         IN  \E response \in HermesResponses(feedIds) :
                 FetchAnswered("fetchPriceUpdates", symbols, feedIds, response)

FetchPriceUpdatesByFeedIds(feedIds) ==
    \E response \in HermesResponses(feedIds) :
        FetchAnswered("fetchPriceUpdatesByFeedIds", feedIds, feedIds, response)

GetFeedIdForSymbol(symbol) ==
    /\ pythCall' = [op |-> "getFeedIdForSymbol", request |-> <<symbol>>,
                    outcome |-> getFeedIdForSymbol(symbol)]
    /\ UNCHANGED <<storeVars, allocVars, decisionVars, hookVars, forecastVars,
                   riskVars, cashflowVars, policyVars>>

GetTokenConfig(symbol) ==
    /\ pythCall' = [op |-> "getTokenConfig", request |-> <<symbol>>,
                    outcome |-> getTokenConfig(symbol)]
    /\ UNCHANGED <<storeVars, allocVars, decisionVars, hookVars, forecastVars,
                   riskVars, cashflowVars, policyVars>>

InitFeed ==
    InitStoreVars /\ InitAllocVars /\ InitDecisionVars /\ InitHookVars /\ InitEngineVars

NextFeed ==
    \/ \E symbols \in Requests(RequestSymbols) : FetchPriceUpdates(symbols)
    \/ \E feedIds \in Requests(RequestFeedIds) : FetchPriceUpdatesByFeedIds(feedIds)
    \/ \E symbol \in RequestSymbols : GetFeedIdForSymbol(symbol)
    \/ \E symbol \in RequestSymbols : GetTokenConfig(symbol)

SpecFeed == InitFeed /\ [][NextFeed]_vars

(***************************************************************************)
(* Policy engine (policyEngine.ts)                                         *)
(*                                                                         *)
(* Amounts are whole dollars and uncertainties are in units of 1e-3.  An   *)
(* optional parameter is << >> when absent and <<v>> when present; a       *)
(* comma-separated list is the sequence of its parts.                      *)
(***************************************************************************)
compareValues(a, b, operator) ==
    CASE operator = "gt" -> a > b
      [] operator = "lt" -> a < b
      [] operator = "eq" -> a = b
      [] operator = "gte" -> a >= b
      [] operator = "lte" -> a <= b
      [] OTHER -> FALSE

Includes(list, x) == \E i \in DOMAIN list : list[i] = x

\* evaluateCondition; hour is new Date().getHours().
evaluateCondition(condition, context, hour) ==
    CASE condition.type = "amount_threshold" ->
             compareValues(context.amount, condition.params.threshold,
                           condition.params.operator)
      [] condition.type = "token_restriction" ->
             IF condition.params.blocked # << >>
                /\ Includes(condition.params.blocked[1], context.token) THEN FALSE
             ELSE IF condition.params.allowed # << >>
                     /\ ~Includes(condition.params.allowed[1], context.token) THEN FALSE
             ELSE TRUE
      [] condition.type = "time_restriction" ->
             IF condition.params.allowedHours # << >>
             THEN /\ hour >= condition.params.allowedHours[1][1]
                  /\ hour <= condition.params.allowedHours[1][2]
             ELSE TRUE
      [] condition.type = "uncertainty_threshold" ->
             context.uncertainty <= condition.params.max
      [] OTHER -> TRUE

NoMatchingPolicy ==
    [type |-> "require_approval", message |-> "No matching policy. Manual approval required."]

applyPolicies(policies, context, hour) ==
    Bind(SelectSeq(SelectSeq(policies, LAMBDA p : p.isActive),
                   LAMBDA p : evaluateCondition(p.condition, context, hour)),
         LAMBDA met : IF met # << >> THEN met[1].action ELSE NoMatchingPolicy)

BlockAction ==
    [type |-> "block", message |-> "Transaction blocked: Price uncertainty exceeds 5%"]
ApprovalLargeAction ==
    [type |-> "require_approval", message |-> "Transaction requires manual approval (>$100)"]
ApprovalStablecoinAction ==
    [type |-> "require_approval", message |-> "Non-stablecoin transaction requires approval"]

createDefaultPolicies(now) ==
    << [id |-> "block-high-uncertainty",
        condition |-> [type |-> "uncertainty_threshold", params |-> [max |-> 50]],
        action |-> BlockAction, isActive |-> TRUE, createdAt |-> now],
       [id |-> "require-approval-large",
        condition |-> [type |-> "amount_threshold",
                       params |-> [threshold |-> 100, operator |-> "gte"]],
        action |-> ApprovalLargeAction, isActive |-> TRUE, createdAt |-> now],
       [id |-> "stablecoin-only",
        condition |-> [type |-> "token_restriction",
                       params |-> [allowed |-> << <<"USDC", "USDT">> >>, blocked |-> << >>]],
        action |-> ApprovalStablecoinAction, isActive |-> FALSE, createdAt |-> now] >>

\* The rule lists the model calls the engine with: the default rules, the
\* default rules with only the stablecoin rule switched on, and a user's list
\* of a token block list, office hours and an unknown condition type.
UserPolicies ==
    << [id |-> "no-sol",
        condition |-> [type |-> "token_restriction",
                       params |-> [allowed |-> << >>, blocked |-> << <<"SOL">> >>]],
        action |-> [type |-> "auto_approve", message |-> "ok"],
        isActive |-> TRUE, createdAt |-> 0],
       [id |-> "office-hours",
        condition |-> [type |-> "time_restriction", params |-> [allowedHours |-> << <<9, 17>> >>]],
        action |-> [type |-> "notify", message |-> "office hours"],
        isActive |-> TRUE, createdAt |-> 0],
       [id |-> "small",
        condition |-> [type |-> "amount_threshold", params |-> [threshold |-> 100, operator |-> "lt"]],
        action |-> [type |-> "notify", message |-> "small"],
        isActive |-> TRUE, createdAt |-> 0],
       [id |-> "anything",
        condition |-> [type |-> "custom", params |-> << >>],
        action |-> [type |-> "block", message |-> "custom"],
        isActive |-> TRUE, createdAt |-> 0] >>

StablecoinOnlyPolicies ==
    [i \in 1..3 |-> [createDefaultPolicies(0)[i] EXCEPT !.isActive = (i = 3)]]

PolicyLists == {createDefaultPolicies(0), StablecoinOnlyPolicies, UserPolicies}
PolicyAmounts == {0, 99, 100, 500}
PolicyTokens == {"USDC", "SOL"}
PolicyUncertainties == {0, 50, 51, 200}
PolicyHours == {8, 12}

PolicyContexts ==
    [amount : PolicyAmounts, token : PolicyTokens, uncertainty : PolicyUncertainties,
     dailySpent : {0}]

\* A caller holds its rules and context and calls applyPolicies on them.
ApplyPolicies ==
    /\ policyResult = NoResult
    /\ policyResult' =
           [called |-> TRUE,
            action |-> applyPolicies(policyArgs.policies, policyArgs.context, policyArgs.hour)]
    /\ UNCHANGED <<policyArgs, storeVars, allocVars, decisionVars, hookVars, forecastVars,
                   riskVars, cashflowVars, feedVars>>

InitPolicy ==
    /\ policyArgs \in [policies : PolicyLists, context : PolicyContexts, hour : PolicyHours]
    /\ policyResult = NoResult
    /\ InitStoreVars /\ InitAllocVars /\ InitDecisionVars /\ InitHookVars
    /\ InitForecastVars /\ InitRiskVars /\ InitCashflowVars /\ InitFeedVars

NextPolicy == ApplyPolicies

SpecPolicy == InitPolicy /\ [][NextPolicy]_vars

(***************************************************************************)
(* Properties of the forecast engine.                                      *)
(***************************************************************************)

\* The model results forecastEnsemble combined, in the order it pushed them.
Combined == presentForecasts(forecasts.regression, forecasts.smoothing, forecasts.meanRev)

\* C11: whenever forecastEnsemble combines two or more model results, its
\* lowerBound is at most every combined model's lowerBound and its upperBound
\* is at least every combined model's upperBound.
C11_EnsembleContainsModels ==
    (forecasts.called /\ Len(Combined) >= 2) =>
        \A i \in 1..Len(Combined) :
            /\ FLe(forecasts.ensemble.lowerBound, Combined[i].lowerBound)
            /\ FGe(forecasts.ensemble.upperBound, Combined[i].upperBound)

\* The results of one call that are present: the models' and the ensemble's.
PresentResults ==
    {f \in {forecasts.regression, forecasts.smoothing, forecasts.meanRev,
            forecasts.ensemble} : f # Null}

\* A model result whose lower bound was clamped at the zero floor.
ClampedAtZero(f) == FLt(FSub(f.expectedValue, f.errorMargin), FZero)

\* The clamp reached the result: its own for a model, a combined model's for
\* the ensemble.
ClampReached(f) ==
    IF f.model = "ensemble" THEN \E i \in 1..Len(Combined) : ClampedAtZero(Combined[i])
    ELSE ClampedAtZero(f)

\* C12: every result of the forecast engine has lowerBound >= 0 and
\* expectedValue <= upperBound, and lowerBound <= expectedValue unless the
\* zero floor clamped the lower bound.
C12_BoundsOrdered ==
    forecasts.called =>
        \A f \in PresentResults :
            /\ FGe(f.lowerBound, FZero)
            /\ FLe(f.expectedValue, f.upperBound)
            /\ FLe(f.lowerBound, f.expectedValue) \/ ClampReached(f)

\* The number of prices the window of "SOL" holds.
WindowLen == Len(getSeriesPrices(marketHistory, "SOL"))

\* C13: the regression and smoothing models return null exactly when the window
\* holds fewer than 10 prices, mean reversion exactly when it holds fewer than
\* 20, the ensemble exactly when all three are null; a present result reports
\* the window's length as inputDataPoints.
C13_NullBelowThreshold ==
    forecasts.called =>
        /\ (forecasts.regression = Null) <=> (WindowLen < 10)
        /\ (forecasts.smoothing = Null) <=> (WindowLen < 10)
        /\ (forecasts.meanRev = Null) <=> (WindowLen < 20)
        /\ (forecasts.ensemble = Null) <=> (Combined = << >>)
        /\ \A f \in PresentResults : f.inputDataPoints = WindowLen

\* Two models present, mean reversion absent, and an ensemble combining them.
C13_Witness ==
    /\ forecasts.called
    /\ WindowLen = 19
    /\ forecasts.meanRev = Null
    /\ Len(Combined) = 2
    /\ forecasts.ensemble.model = "ensemble"
    /\ forecasts.ensemble.inputDataPoints = 19

\* The stored window of "SOL".
StoredPrices == getPriceArray(marketHistory, "SOL")
StoredTimes == getTimestampArray(marketHistory, "SOL")

TimesStrictlyIncrease == \A i \in 1..(WindowLen - 1) : StoredTimes[i] < StoredTimes[i + 1]
PricesNeverFall == \A i \in 1..(WindowLen - 1) : StoredPrices[i] <= StoredPrices[i + 1]
PricesStrictlyIncrease == \A i \in 1..(WindowLen - 1) : StoredPrices[i] < StoredPrices[i + 1]

\* The series rises by the same amount over the same time at every step.
RisesEvenly ==
    /\ PricesStrictlyIncrease
    /\ \A i \in 1..(WindowLen - 1) :
          /\ StoredPrices[i + 1] - StoredPrices[i] = StoredPrices[2] - StoredPrices[1]
          /\ StoredTimes[i + 1] - StoredTimes[i] = StoredTimes[2] - StoredTimes[1]

LastPrice == FInt(StoredPrices[WindowLen])

\* C27 as stated: on a series of at least 10 points with strictly increasing
\* timestamps and monotonically increasing prices, for a horizon > 0,
\* forecastRollingRegression returns a positive slope modelParams.beta and an
\* expectedValue above the last observed price.
C27_RisingSeriesForecastsAboveLast ==
    (forecasts.called /\ WindowLen >= 10 /\ TimesStrictlyIncrease /\ PricesNeverFall
         /\ forecastArgs.horizon > 0) =>
        /\ forecasts.regression # Null
        /\ FGt(forecasts.regression.modelParams.beta, FZero)
        /\ FGt(forecasts.regression.expectedValue, LastPrice)

\* C27, as the code has it: on a series of at least 10 points with strictly
\* increasing timestamps and strictly increasing prices the slope is positive;
\* the expectedValue is above the last observed price when the series rises
\* evenly.  A least-squares line need not reach the last price of a series
\* whose last step is much larger than the others.
C27_RisingSeriesHasPositiveSlope ==
    (forecasts.called /\ WindowLen >= 10 /\ TimesStrictlyIncrease /\ PricesStrictlyIncrease
         /\ forecastArgs.horizon > 0) =>
        /\ forecasts.regression # Null
        /\ FGt(forecasts.regression.modelParams.beta, FZero)
        /\ RisesEvenly => FGt(forecasts.regression.expectedValue, LastPrice)

\* A forecast above the last price of an evenly rising series of 10 points.
C27_Witness ==
    /\ forecasts.called /\ WindowLen >= 10 /\ RisesEvenly /\ TimesStrictlyIncrease
    /\ forecasts.regression # Null
    /\ FGt(forecasts.regression.modelParams.beta, FZero)
    /\ FGt(forecasts.regression.expectedValue, LastPrice)

(***************************************************************************)
(* Properties of the risk metrics and of getStatistics.                    *)
(***************************************************************************)
\* The records of zeros the VaR and CVaR functions return.
ZeroVar == [varRelative |-> FZero, varAbsolute |-> FZero]
ZeroCvar == [cvarRelative |-> FZero, cvarAbsolute |-> FZero]

\* getStatistics and the forecast models return null below their thresholds.
AbsentBelowThreshold ==
    /\ (riskResult.called /\ WindowLen < 2) => riskResult.statistics = Null
    /\ (forecasts.called /\ WindowLen < 10) =>
           forecasts.regression = Null /\ forecasts.smoothing = Null
    /\ (forecasts.called /\ WindowLen < 20) => forecasts.meanRev = Null

\* C14 as stated: below its threshold every function returns an absent result,
\* the VaR and CVaR functions (fewer than 10 prices) included.
C14_AllAbsentBelowThreshold ==
    /\ AbsentBelowThreshold
    /\ (riskResult.called /\ WindowLen < 10) =>
           /\ riskResult.var90 = Null /\ riskResult.var95 = Null /\ riskResult.var99 = Null
           /\ riskResult.varHistorical = Null
           /\ riskResult.cvar = Null

\* C14, as the code has it: getStatistics and the three forecast models return
\* null below their thresholds, while the VaR and CVaR functions return the
\* record of zeros below 10 prices.
C14_AbsentOrZeroBelowThreshold ==
    /\ AbsentBelowThreshold
    /\ (riskResult.called /\ WindowLen < 10) =>
           /\ riskResult.var90 = ZeroVar /\ riskResult.var95 = ZeroVar
           /\ riskResult.var99 = ZeroVar
           /\ riskResult.varHistorical = ZeroVar
           /\ riskResult.cvar = ZeroCvar

\* One point in the window, both calls made: nothing but absent and zeros.
C14_Witness ==
    /\ riskResult.called /\ forecasts.called
    /\ WindowLen = 1
    /\ riskResult.statistics = Null
    /\ forecasts.ensemble = Null
    /\ riskResult.var95 = ZeroVar

\* The window holds only prices above zero.
WindowPositive ==
    \A i \in 1..WindowLen : getSeriesPrices(marketHistory, "SOL")[i].price > 0

\* a <= b <= c, all three numbers and none negative.
NonNegativeRising(a, b, c) == FGe(a, FZero) /\ FLe(a, b) /\ FLe(b, c)

\* C18: for a window of at least 10 prices, every position value >= 0 and every
\* horizon, the varRelative and the varAbsolute of calculateVaRParametric are
\* non-negative and do not decrease from confidence 0.90 to 0.95 to 0.99.
C18_VarRisesWithConfidence ==
    (riskResult.called /\ WindowLen >= 10) =>
        /\ NonNegativeRising(riskResult.var90.varRelative, riskResult.var95.varRelative,
                             riskResult.var99.varRelative)
        /\ NonNegativeRising(riskResult.var90.varAbsolute, riskResult.var95.varAbsolute,
                             riskResult.var99.varAbsolute)

\* C15: the numeric outputs of getStatistics (totalReturn, the drawdowns) and of
\* generateDecision (recommendedMaxPosition, confidenceScore) are finite numbers
\* for every input, a first price of 0, a peak of 0, var95 = 0 and
\* expectedValue = 0 included.
C15_OutputsFinite ==
    /\ DecisionReturned =>
           /\ IsFinite(decision.riskAssessment.recommendedMaxPosition)
           /\ FIsNum(decision.confidenceScore)
    /\ (riskResult.called /\ riskResult.statistics # Null) =>
           /\ IsFinite(riskResult.statistics.totalReturn)
           /\ IsFinite(riskResult.statistics.maxDrawdown)
           /\ IsFinite(riskResult.statistics.currentDrawdown)

\* The log returns of the stored window of "SOL".
StoredReturns == logReturns(FPrices(marketHistory, "SOL"))

AllPricesPositive == \A i \in 1..WindowLen : StoredPrices[i] > 0

\* No return lies strictly below the VaR threshold -varRelative.
NoTailReturn ==
    \A i \in DOMAIN StoredReturns :
        ~FLt(StoredReturns[i], FNeg(riskResult.varHistorical.varRelative))

\* C30: for a stored series of at least 10 positive prices, at every confidence
\* level, cvarRelative of calculateCVaR is at least varRelative of
\* calculateVaRHistorical at the same level, and the two are equal exactly
\* when no return is strictly below the VaR threshold.
C30_CvarAtLeastVar ==
    (riskResult.called /\ WindowLen >= 10 /\ AllPricesPositive) =>
        /\ FGe(riskResult.cvar.cvarRelative, riskResult.varHistorical.varRelative)
        /\ (riskResult.cvar.cvarRelative = riskResult.varHistorical.varRelative)
              <=> NoTailReturn

\* A series of positive prices with a return below the threshold: the CVaR is
\* strictly above the VaR.
C30_Witness ==
    /\ riskResult.called /\ WindowLen >= 10 /\ AllPricesPositive
    /\ ~NoTailReturn
    /\ FGt(riskResult.cvar.cvarRelative, riskResult.varHistorical.varRelative)

\* The fallback: positive prices and no return below the threshold.
C30_WitnessFallback ==
    /\ riskResult.called /\ WindowLen >= 10 /\ AllPricesPositive
    /\ NoTailReturn
    /\ FGt(riskResult.varHistorical.varRelative, FZero)
    /\ riskResult.cvar.cvarRelative = riskResult.varHistorical.varRelative

(***************************************************************************)
(* Properties of the cashflow engine.                                      *)
(***************************************************************************)

\* forecastCashflow was called and returned a result.
CashflowReturned == cashflowResult.called /\ cashflowResult.result # Null

\* sigma * sqrt(horizonDays) of the returned result.
ResultDenom ==
    FMul(cashflowResult.result.stdDailyNet, FSqrt(FInt(cashflowResult.result.horizonDays)))

\* C19: whenever forecastCashflow returns a result, probabilityOfOverdraft lies
\* in [0, 1]; when sigma * sqrt(horizonDays) is 0 it is exactly 1 if
\* expectedEndingBalance < 0 and exactly 0 otherwise, and then lowerBound =
\* upperBound = expectedEndingBalance = startingBalance + horizonDays * meanDailyNet.
C19_OverdraftProbabilityInRange ==
    CashflowReturned =>
        LET r == cashflowResult.result
            p == r.probabilityOfOverdraft
        IN  /\ FGe(p, FZero)
            /\ FLe(p, FOne)
            /\ (ResultDenom = FZero) =>
                   /\ p = (IF FLt(r.expectedEndingBalance, FZero) THEN FOne ELSE FZero)
                   /\ r.lowerBound = r.expectedEndingBalance
                   /\ r.upperBound = r.expectedEndingBalance
                   /\ r.expectedEndingBalance =
                          FAdd(FInt(r.startingBalance),
                               FMul(FInt(r.horizonDays), r.meanDailyNet))

\* A result whose sigma * sqrt(horizonDays) is 0 and whose expected ending
\* balance is negative: the probability is 1 and the interval is a point.
C19_Witness ==
    /\ CashflowReturned
    /\ ResultDenom = FZero
    /\ FLt(cashflowResult.result.expectedEndingBalance, FZero)
    /\ cashflowResult.result.probabilityOfOverdraft = FOne
    /\ cashflowResult.result.lowerBound = cashflowResult.result.upperBound

\* The lookback window of the call: [now - lookbackDays days, now].
WindowStart == CashflowNow - cashflowArgs.lookbackDays * HoursPerDay
InWindow(e) == WindowStart <= e.timestamp /\ e.timestamp <= CashflowNow

\* The day of the window an event of the window falls in, 0-based; an event at
\* now belongs to the last day.
DayOf(e) ==
    IF (e.timestamp - WindowStart) \div HoursPerDay >= cashflowArgs.lookbackDays
    THEN cashflowArgs.lookbackDays - 1
    ELSE (e.timestamp - WindowStart) \div HoursPerDay

\* The net amount of the events of the window that fall in day k.
RECURSIVE DayNetUpTo(_, _)
DayNetUpTo(k, n) ==
    IF n = 0 THEN 0
    ELSE LET e == cashflowArgs.events[n]
         IN  DayNetUpTo(k, n - 1) + (IF InWindow(e) /\ DayOf(e) = k THEN e.amount ELSE 0)

DayNet(k) == DayNetUpTo(k, Len(cashflowArgs.events))

EveryBucketZero == \A k \in 0..(cashflowArgs.lookbackDays - 1) : DayNet(k) = 0

\* C20: forecastCashflow returns null exactly when every daily bucket of the
\* lookback window is zero (no events, all events outside the window, or days
\* whose events net to zero); otherwise it returns a result whose inputDays is
\* lookbackDays.
C20_NullIffEveryBucketZero ==
    cashflowResult.called =>
        /\ (cashflowResult.result = Null) <=> EveryBucketZero
        /\ (cashflowResult.result # Null) =>
               cashflowResult.result.inputDays = cashflowArgs.lookbackDays

\* Null for two events of the window that net to zero in their day.
C20_Witness ==
    /\ cashflowResult.called
    /\ cashflowResult.result = Null
    /\ Len(cashflowArgs.events) = 2
    /\ \A i \in 1..2 : InWindow(cashflowArgs.events[i])
    /\ cashflowArgs.lookbackDays > 0

\* The sum of a sequence of integers.
RECURSIVE SumSeq(_)
SumSeq(xs) == IF xs = << >> THEN 0 ELSE xs[1] + SumSeq(Tail(xs))

\* The amounts of the events that an assignment f of events to buckets (0 for
\* no bucket) puts into bucket k.
AssignedTo(f, k) ==
    SumSeq([i \in DOMAIN cashflowArgs.events |->
               IF f[i] = k THEN cashflowArgs.events[i].amount ELSE 0])

\* Every event of the window is added to exactly one bucket, every other event
\* to none, and the buckets hold nothing else.
EachWindowEventInOneBucket ==
    \E f \in [DOMAIN cashflowArgs.events -> 0..cashflowArgs.lookbackDays] :
        /\ \A i \in DOMAIN f : (f[i] # 0) <=> InWindow(cashflowArgs.events[i])
        /\ \A k \in 1..cashflowArgs.lookbackDays : cashflowResult.daily[k] = AssignedTo(f, k)

WindowAmounts ==
    SumSeq([i \in DOMAIN cashflowArgs.events |->
               IF InWindow(cashflowArgs.events[i]) THEN cashflowArgs.events[i].amount ELSE 0])

\* The event list in the order given by the permutation p of its indices.
Reordered(p) == [i \in DOMAIN cashflowArgs.events |-> cashflowArgs.events[p[i]]]

OrderIndependent ==
    \A p \in Permutations(DOMAIN cashflowArgs.events) :
        toDailyNetFlows(Reordered(p), cashflowArgs.lookbackDays, CashflowNow)
            = cashflowResult.daily

\* C26: toDailyNetFlows(events, days) returns exactly days buckets; every event
\* with now - days <= timestamp <= now is added to exactly one bucket and every
\* other event to none; the buckets sum to the in-window amounts; and the
\* result does not depend on the order of the events.
C26_BucketsPartitionWindow ==
    cashflowResult.called =>
        /\ Len(cashflowResult.daily) = cashflowArgs.lookbackDays
        /\ EachWindowEventInOneBucket
        /\ SumSeq(cashflowResult.daily) = WindowAmounts
        /\ OrderIndependent

\* The part of C26 that holds: the same for a window of at least one day; a
\* window of no days has no bucket and is order-independent.
C26_BucketsPartitionWindowOfADay ==
    cashflowResult.called =>
        /\ Len(cashflowResult.daily) = cashflowArgs.lookbackDays
        /\ OrderIndependent
        /\ cashflowArgs.lookbackDays >= 1 =>
               /\ EachWindowEventInOneBucket
               /\ SumSeq(cashflowResult.daily) = WindowAmounts

\* A three-day window with an event on its first instant and one at now: the
\* first and the last bucket are filled.
C26_Witness ==
    /\ cashflowResult.called
    /\ cashflowArgs.lookbackDays = 3
    /\ \E i, j \in DOMAIN cashflowArgs.events :
          /\ cashflowArgs.events[i].timestamp = WindowStart
          /\ cashflowArgs.events[j].timestamp = CashflowNow
    /\ cashflowResult.daily[1] # 0
    /\ cashflowResult.daily[3] # 0

(***************************************************************************)
(* Properties of the probability of loss and of the quality scores.        *)
(***************************************************************************)
NoSpread == decisionInput.forecast.errorMargin = 0

\* C24 as stated: for every positionValue, 0 included, and a forecast with
\* errorMargin = 0, riskAssessment.probabilityOfLoss is exactly 1 when the
\* forecast's expectedValue is below 0 and exactly 0 otherwise.
C24_NoSpreadLossIsCertainOrNever ==
    (DecisionReturned /\ NoSpread) =>
        decision.riskAssessment.probabilityOfLoss
            = IF decisionInput.forecast.expectedValue < 0 THEN FOne ELSE FZero

\* C24, as the code has it: with errorMargin = 0 and positionValue # 0 the
\* probability of loss is exactly 1 when expectedValue < 0 and exactly 0
\* otherwise; with positionValue = 0 it is 0 whatever the forecast.
C24_NoSpreadLossUnlessNoPosition ==
    (DecisionReturned /\ NoSpread) =>
        decision.riskAssessment.probabilityOfLoss
            = IF decisionInput.positionValue # 0 /\ decisionInput.forecast.expectedValue < 0
              THEN FOne ELSE FZero

\* A position of 1000 and a forecast of -100 without spread: the loss is certain.
C24_Witness ==
    /\ DecisionReturned /\ NoSpread
    /\ decisionInput.positionValue # 0
    /\ decisionInput.forecast.expectedValue < 0
    /\ decision.riskAssessment.probabilityOfLoss = FOne

FInRange(a, lo, hi) == FIsNum(a) /\ lo * FScale <= a[2] /\ a[2] <= hi * FScale

FIsInteger(a) == FIsNum(a) /\ a[2] % FScale = 0

\* C25: for non-negative volatility and relative uncertainty (stale data, fewer
\* than 20 input points and expectedValue <= 0 included), generateDecision's
\* justification.dataQuality is in [0, 100] and its confidenceScore is an
\* integer in [0, 100].
C25_ScoresInRange ==
    DecisionReturned =>
        /\ FInRange(decision.justification.dataQuality, 0, 100)
        /\ FInRange(decision.confidenceScore, 0, 100)
        /\ FIsInteger(decision.confidenceScore)

\* The part of C25 that holds: dataQuality is in [0, 100] on every input, and
\* confidenceScore is an integer in [0, 100] unless errorMargin and
\* expectedValue are both 0.
C25_ScoresInRangeUnlessZeroForecast ==
    DecisionReturned =>
        /\ FInRange(decision.justification.dataQuality, 0, 100)
        /\ (decisionInput.forecast.expectedValue # 0 \/ decisionInput.forecast.errorMargin # 0)
              => /\ FInRange(decision.confidenceScore, 0, 100)
                 /\ FIsInteger(decision.confidenceScore)

(***************************************************************************)
(* Properties of the risk certificate.                                     *)
(***************************************************************************)
\* One run: generateDecision on an input, then generateRiskCertificate on the
\* same input and the recommendation.
CertificateOfRun(input) ==
    generateRiskCertificate("SOL", input.forecast, input.risk, input.positionValue,
        generateDecision("SOL", input.forecast, input.risk, input.positionValue,
                         input.priceData, 0), 0, 0)

SameEvidence(c1, c2) ==
    /\ c1.inputs = c2.inputs
    /\ c1.model = c2.model
    /\ c1.outputs.forecast = c2.outputs.forecast
    /\ c1.outputs.risk = c2.outputs.risk

\* C22: two runs of generateDecision and generateRiskCertificate whose
\* certificates agree on inputs, model, outputs.forecast and outputs.risk
\* also agree on outputs.decision (recommendation, confidence, worstCase).
C22_CertificateBindsDecision ==
    DecisionReturned =>
        \A other \in DecisionInputs :
            SameEvidence(CertificateOfRun(decisionInput), CertificateOfRun(other))
                => CertificateOfRun(decisionInput).outputs.decision
                       = CertificateOfRun(other).outputs.decision

(***************************************************************************)
(* Properties of the price-feed integration.                               *)
(***************************************************************************)
\* The symbols and feed ids the last call looked up.
LookedUpUnsupported ==
    /\ pythCall.op \in {"fetchPriceUpdates", "getFeedIdForSymbol", "getTokenConfig"}
    /\ \E i \in DOMAIN pythCall.request : pythCall.request[i] \notin SupportedSymbols

ReturnedPlaceholder ==
    /\ pythCall.op \in {"fetchPriceUpdates", "fetchPriceUpdatesByFeedIds"}
    /\ ~pythCall.outcome.threw
    /\ \E i \in DOMAIN pythCall.outcome.value :
          pythCall.outcome.value[i].symbol \notin SupportedSymbols

\* C21: every lookup of an unsupported symbol or token fails with the named
\* error "Unsupported token"; no lookup of the price-feed integration returns
\* a placeholder in place of a symbol; and the store holds no series under a
\* symbol that is not a supported token.
C21_UnsupportedLookupsFailLoudly ==
    /\ pythCall.op # "none" /\ LookedUpUnsupported
          => pythCall.outcome = Threw("Unsupported token")
    /\ pythCall.op # "none" => ~ReturnedPlaceholder
    /\ DOMAIN marketHistory \subseteq SupportedSymbols

\* The part of C21 that holds: the lookups by symbol throw the named error and
\* a fetch by symbols stops before its request.
C21_SymbolLookupsFailLoudly ==
    pythCall.op # "none" /\ LookedUpUnsupported
        => pythCall.outcome = Threw("Unsupported token")

(***************************************************************************)
(* Properties of the policy engine.                                        *)
(***************************************************************************)
DefaultPoliciesApplied ==
    policyResult.called /\ policyArgs.policies = createDefaultPolicies(0)

\* C28: with the rules of createDefaultPolicies, applyPolicies returns the block
\* action exactly when context.uncertainty exceeds 0.05, for every amount and
\* token; otherwise it returns the action of the next active rule that matches
\* (require_approval for an amount of at least 100) or the default
\* require_approval.
C28_BlocksExactlyAboveFivePercent ==
    DefaultPoliciesApplied =>
        /\ (policyResult.action = BlockAction) <=> (policyArgs.context.uncertainty > 50)
        /\ policyArgs.context.uncertainty <= 50 =>
               policyResult.action = IF policyArgs.context.amount >= 100
                                     THEN ApprovalLargeAction ELSE NoMatchingPolicy

\* What the code does with the default rules: it blocks exactly when the
\* uncertainty is at most 0.05, and above 0.05 it requires approval.
C28_BlocksExactlyUpToFivePercent ==
    DefaultPoliciesApplied =>
        /\ (policyResult.action = BlockAction) <=> (policyArgs.context.uncertainty <= 50)
        /\ policyArgs.context.uncertainty > 50 =>
               policyResult.action = IF policyArgs.context.amount >= 100
                                     THEN ApprovalLargeAction ELSE NoMatchingPolicy

(***************************************************************************)
(* Properties of the portfolio optimizer.                                  *)
(***************************************************************************)
PlanReturned == plan # NoPlan

\* C5: the returned allocations are each in [0, 1] and sum to 1 (shares are
\* multiples of 1e-4, so a sum within 1e-6 of 1 is the sum 1).
C5_AllocationsSumToOne ==
    PlanReturned =>
        /\ \A b \in {"CASH", "STABLE_EARN", "SOL_STAKING"} :
              plan.allocations[b] >= 0 /\ plan.allocations[b] <= FullShare
        /\ plan.allocations.CASH + plan.allocations.STABLE_EARN
              + plan.allocations.SOL_STAKING = FullShare

\* A plan over a step that is not a divisor of 1, holding all three buckets' worth
\* of remainder: a volatile share and the cash the grid could not place.
C5_Witness ==
    /\ PlanReturned
    /\ allocInput.stepPct = <<12345>>
    /\ plan.allocations.SOL_STAKING > 0
    /\ plan.allocations.CASH > 0

\* C6: when currentRelativeUncertainty > maxUncertainty the plan holds no
\* SOL_STAKING and its worst-case loss is 0.
C6_GateForcesNoVolatile ==
    (PlanReturned /\ allocInput.currentRelativeUncertainty > allocInput.maxUncertainty) =>
        /\ plan.allocations.SOL_STAKING = 0
        /\ (plan.worstCaseLossUSD.usd = 0 \/ plan.worstCaseLossUSD.coef = 0)

\* The gate is up on inputs for which the volatile bucket is otherwise the best.
C6_Witness ==
    /\ PlanReturned
    /\ allocInput.currentRelativeUncertainty > allocInput.maxUncertainty
    /\ allocInput.totalUSD > 0
    /\ allocInput.solStakingApy > allocInput.stableEarnApy
    /\ allocInput.solRisk.cvar95 = 0
    /\ Abs(allocInput.solRisk.var95) <= allocInput.maxVar95LossPct
    /\ plan.allocations.SOL_STAKING = 0

\* C7 as claimed: for totalUSD > 0, a VaR95 loss fraction above the ceiling keeps
\* the volatile bucket out of the plan.
C7_VarCeilingRejects ==
    (PlanReturned /\ allocInput.totalUSD > 0
        /\ Abs(allocInput.solRisk.var95) > allocInput.maxVar95LossPct) =>
        plan.allocations.SOL_STAKING = 0


\* The candidate shares of the call, and the largest of them.
InputCandidates == candidatesOf(allocInput.stepPct)
LargestCandidate == InputCandidates[Len(InputCandidates)]

\* The gate or the VaR constraint rejects every candidate with a volatile share.
VolatileRejected ==
    \A k \in 1..Len(InputCandidates) :
        InputCandidates[k] > 0 =>
            gateSkips(allocInput, InputCandidates[k]) \/ varSkips(allocInput, InputCandidates[k])

ZeroWorstCase ==
    /\ plan.worstCaseLossUSD.usd = 0 \/ plan.worstCaseLossUSD.coef = 0
    /\ plan.worstCaseLossPct = 0

AdmissiblePairs ==
    LET cands == candidatesOf(allocInput.stepPct)
    IN  {pr \in {<<cands[i], cands[j]>> : i \in DOMAIN cands, j \in DOMAIN cands} :
            /\ ~(uncertaintyTooHighOf(allocInput) /\ pr[1] > 0)
            /\ pr[1] + pr[2] <= FullShare
            /\ ~varSkips(allocInput, pr[1])}

\* The objective of a pair in units of 1e-6 / (365 * 20) USD per USD of totalUSD:
\* 20 * (expected return) - 7 * 365 * (worst-case loss), that is lambda = 7 / 20.
ObjectiveCoef(pr) ==
    20 * allocInput.horizonDays
       * (pr[2] * allocInput.stableEarnApy + pr[1] * allocInput.solStakingApy)
    - 7 * 365 * pr[1] * Abs(allocInput.solRisk.cvar95)

\* The sign of objective(a) - objective(b) in USD.
ObjectiveOrder(a, b) == Sgn(allocInput.totalUSD) * Sgn(ObjectiveCoef(a) - ObjectiveCoef(b))

PlanPair == <<plan.allocations.SOL_STAKING, plan.allocations.STABLE_EARN>>

\* Enumeration order: smallest volatile share first, then smallest stable share.
EnumeratedBefore(a, b) == a[1] < b[1] \/ (a[1] = b[1] /\ a[2] < b[2])

\* C23: the returned plan has objectiveScore = expectedReturnUSD - 0.35 *
\* worstCaseLossUSD; no candidate that passes the gate and the VaR constraint
\* has a greater objective; every such candidate enumerated before the plan
\* has a strictly smaller one; and when all of them tie the plan is 100% CASH.
C23_PlanIsFirstMaximum ==
    plan # NoPlan =>
        /\ PlanPair \in AdmissiblePairs
        /\ plan.objectiveScore.usd = allocInput.totalUSD
        /\ plan.expectedReturnUSD.usd = allocInput.totalUSD
        /\ plan.worstCaseLossUSD.usd = allocInput.totalUSD
        /\ plan.objectiveScore.coef = ObjectiveCoef(PlanPair)
        /\ plan.objectiveScore.coef
              = 20 * plan.expectedReturnUSD.coef - 7 * 365 * plan.worstCaseLossUSD.coef
        /\ \A pr \in AdmissiblePairs : ObjectiveOrder(PlanPair, pr) >= 0
        /\ \A pr \in AdmissiblePairs :
              EnumeratedBefore(pr, PlanPair) => ObjectiveOrder(PlanPair, pr) > 0
        /\ (\A pr \in AdmissiblePairs : ObjectiveOrder(PlanPair, pr) = 0)
              => plan.allocations = [CASH |-> FullShare, STABLE_EARN |-> 0, SOL_STAKING |-> 0]

\* A plan that beats one admissible candidate and ties with a later one.
C23_Witness ==
    /\ plan # NoPlan
    /\ allocInput.totalUSD > 0
    /\ \E pr \in AdmissiblePairs : ObjectiveOrder(PlanPair, pr) > 0
    /\ \E pr \in AdmissiblePairs :
          EnumeratedBefore(PlanPair, pr) /\ ObjectiveOrder(PlanPair, pr) = 0

(***************************************************************************)
(* Properties of the time-series store.                                    *)
(***************************************************************************)
SeqMax(seq) == CHOOSE m \in {seq[i] : i \in 1..Len(seq)} : \A i \in 1..Len(seq) : seq[i] <= m

\* The last k elements of a sequence.
LastOf(seq, k) == SubSeq(seq, Len(seq) - k + 1, Len(seq))

Evicted(symbol) ==
    /\ symbol \in DOMAIN marketHistory
    /\ Len(appended[symbol]) > marketHistory[symbol].maxWindowSize

\* C1: every stored series holds at most maxWindowSize points, and that capacity
\* is 50 for a series created by a first append and 100 for a seeded series.
C1_WindowBounded ==
    \A s \in DOMAIN marketHistory :
        /\ Len(marketHistory[s].prices) <= marketHistory[s].maxWindowSize
        /\ created[s] = "addPrice" => marketHistory[s].maxWindowSize = 50
        /\ created[s] = "seedSyntheticHistory" => marketHistory[s].maxWindowSize = 100

\* A series created by a first append that has received more points than it holds.
C1_Witness ==
    \E s \in Symbols :
        /\ Evicted(s)
        /\ created[s] = "addPrice"
        /\ Len(marketHistory[s].prices) = 50

\* C2: the price and timestamp projections are those of exactly the last
\* min(n, capacity) points appended, in insertion order, index-aligned; both are
\* empty for a symbol that has no series.
C2_ProjectionsAreLastAppended ==
    \A s \in Symbols :
        IF s \notin DOMAIN marketHistory
        THEN getPriceArray(marketHistory, s) = << >>
             /\ getTimestampArray(marketHistory, s) = << >>
        ELSE LET last == LastOf(appended[s],
                                Min(Len(appended[s]), marketHistory[s].maxWindowSize))
             IN  /\ getPriceArray(marketHistory, s) =
                        [i \in 1..Len(last) |-> last[i].price]
                 /\ getTimestampArray(marketHistory, s) =
                        [i \in 1..Len(last) |-> last[i].timestamp]
                 /\ Len(getPriceArray(marketHistory, s)) =
                        Len(getTimestampArray(marketHistory, s))

\* A window that has evicted a point and whose timestamps are out of order; the
\* evicted first point carried a later timestamp than the newest point kept.
C2_Witness ==
    \E s \in Symbols :
        /\ Evicted(s)
        /\ LET ts == getTimestampArray(marketHistory, s)
           IN  /\ \E i, j \in 1..Len(ts) : i < j /\ ts[i] > ts[j]
               /\ appended[s][1].timestamp > ts[Len(ts)]

\* C3 as claimed: only addPrice changes the points stored for a symbol.
C3_OnlyAppendMutates ==
    [][\A s \in DOMAIN marketHistory :
          getSeriesPrices(marketHistory', s) # marketHistory[s].prices
              => lastCall'.op = "addPrice"]_vars

\* C3, amended: the points stored for a symbol change only by an addPrice on that
\* symbol, which appends one point and evicts at most the oldest, or by dropping
\* the whole series: initializeSeries and seedSyntheticHistory on that symbol
\* replace it by a new series, clearAllHistory removes every series.
C3_AppendOrReset ==
    [][\A s \in DOMAIN marketHistory :
          LET old == marketHistory[s].prices
              new == getSeriesPrices(marketHistory', s)
          IN  new # old =>
                \/ /\ lastCall'.op = "addPrice"
                   /\ lastCall'.symbol = s
                   /\ \/ new = Append(old, lastCall'.point)
                      \/ new = Tail(Append(old, lastCall'.point))
                \/ /\ lastCall'.op = "initializeSeries"
                   /\ lastCall'.symbol = s
                   /\ new = << >>
                \/ /\ lastCall'.op = "seedSyntheticHistory"
                   /\ lastCall'.symbol = s
                   /\ new = LastOf(appended'[s],
                                   Min(Len(appended'[s]), EXTENDED_WINDOW_SIZE))
                \/ /\ lastCall'.op = "clearAllHistory"
                   /\ s \notin DOMAIN marketHistory']_vars

\* A series was just replaced while another symbol keeps its stored points.
C3_Witness ==
    /\ lastCall.op \in {"initializeSeries", "seedSyntheticHistory"}
    /\ \E o \in (DOMAIN marketHistory) \ {lastCall.symbol} :
          marketHistory[o].prices # << >>

PositivePrices(symbol) ==
    \A i \in 1..Len(marketHistory[symbol].prices) : marketHistory[symbol].prices[i].price > 0

\* C4: for a stored series of at least 2 positive prices, getDrawdown returns
\* 1 > max >= current >= 0, and current is the drawdown of the last point
\* against the peak of the window.
C4_DrawdownBounds ==
    \A s \in DOMAIN marketHistory :
        (Len(marketHistory[s].prices) >= 2 /\ PositivePrices(s)) =>
            LET dd == getDrawdown(marketHistory, s)
                prices == getPriceArray(marketHistory, s)
                peak == SeqMax(prices)
            IN  /\ Ge(dd.max, dd.current)
                /\ Ge(dd.current, Zero)
                /\ Lt(dd.max, One)
                /\ Lt(dd.current, One)
                /\ dd.current = Div(peak - prices[Len(prices)], peak)

\* After an eviction, a window that fell from its peak and recovered in part.
C4_Witness ==
    \E s \in Symbols :
        /\ Evicted(s)
        /\ Len(marketHistory[s].prices) >= 2
        /\ PositivePrices(s)
        /\ LET dd == getDrawdown(marketHistory, s)
           IN  Gt(dd.max, dd.current) /\ Gt(dd.current, Zero)

====
